---- MODULE Spec2Model ----
(***************************************************************************)
(* Plan governance engine of IntelliFlow-CRM (tools/plan): the dependency  *)
(* graph, the Task entity with its overrides and the lint use case; and    *)
(* the audit runner with its attestations (tools/audit).                   *)
(***************************************************************************)
EXTENDS Integers, Sequences, FiniteSets, TLC

VARIABLES
    graph,      \* the DependencyGraph under construction
    ret,        \* the return value of the last call on graph
    base,       \* the Task an override is applied to
    patch,      \* the override: with_override arguments or a TaskOverride
    updated,    \* the tasks returned by the successive applications
    usecase,    \* the LintPlanUseCase: tasks, overrides, scope and settings
    now,        \* datetime.now() of the run
    lint_result, \* the LintPlanResult of execute() and the exit code of the CLI
    files,      \* the paths that exist, under the project root and outside of it
    bundle,     \* the audit bundle directory of one run id: summary.json and evidence
    attestation, \* the attestation file of one task, or None
    spawned,    \* the processes the audit runner spawned in its last invocation
    checkout    \* what the audit runner reads: HEAD, audit-matrix.yml, os.environ

gvars == <<graph, ret>>
ovars == <<base, patch, updated>>
lvars == <<usecase, now, lint_result, files>>
avars == <<bundle, attestation, spawned, checkout>>
vars == <<graph, ret, base, patch, updated, usecase, now, lint_result, files, bundle,
          attestation, spawned, checkout>>

(***************************************************************************)
(* Bounds and input sets                                                   *)
(***************************************************************************)
\* total number of dependency entries a graph of Spec may hold
MaxEdges == 4
\* total number of dependency entries a graph of SpecSprint may hold
MaxSprintEdges == 2

\* total number of dependency entries a graph of SpecTopo may hold
MaxTopoEdges == 3
\* length of the dependency tuple of a base task of SpecOverride
MaxBaseDeps == 2
\* number of times SpecOverride applies the same override in a row
MaxApplications == 2
\* length of the dependency tuple of a task of the lint runs on two tasks
MaxLintDeps == 1

TaskIds == {"A", "B", "C"}

\* the tasks SpecSprint adds; "C" stays an unknown dependency target there
SprintTaskIds == {"A", "B"}

\* Python orders task ids as strings; the ids of the model in that order
IdOrder == <<"A", "B", "C">>

\* Optional[int] sprint: None ('Continuous')
NoSprint == -1

\* Optional[str] waiver_expiry: None; an ISO date is its day number (>= 0)
NoDate == -1
\* a waiver_expiry string datetime.fromisoformat rejects
BadDate == -2

\* sprint numbers (>= 0) and None
SprintValues == {NoSprint, 0, 1}

\* None for Optional[str] and Optional enum values
None == "None"

\* None for Optional tuple and raw-string values: a tuple no real value equals
NoneSeq == <<None>>

Range(s) == {s[i] : i \in 1..Len(s)}

SeqsUpTo(S, n) == UNION {[1..k -> S] : k \in 0..n}

\* In(value), the value being computed once and then bound: a local variable
Let(value, In(_)) == CHOOSE result \in {In(v) : v \in {value}} : TRUE

(***************************************************************************)
(* DependencyGraph: three dicts sharing one insertion order                *)
(***************************************************************************)
EmptyGraph ==
    [order |-> <<>>, adjacency |-> <<>>, sprints |-> <<>>, cross_sprint_allowed |-> <<>>]

Known(g) == DOMAIN g.adjacency

add_task(g, task_id, dependencies, sprint, cross_sprint_allowed) ==
    [order |-> IF task_id \in Known(g) THEN g.order ELSE Append(g.order, task_id),
     adjacency |-> (task_id :> dependencies) @@ g.adjacency,
     sprints |-> (task_id :> sprint) @@ g.sprints,
     cross_sprint_allowed |-> (task_id :> cross_sprint_allowed) @@ g.cross_sprint_allowed]

task_ids(g) == Known(g)

get_dependencies(g, task_id) ==
    IF task_id \in Known(g) THEN g.adjacency[task_id] ELSE <<>>

get_sprint(g, task_id) ==
    IF task_id \in DOMAIN g.sprints THEN g.sprints[task_id] ELSE NoSprint

WHITE == 0
GRAY == 1
BLACK == 2

\* the cycle taken from the start of the path
index_path_start(path, node) == 1

index(path, node) == CHOOSE i \in 1..Len(path) :
    path[i] = node /\ \A j \in 1..(i - 1) : path[j] # node

RECURSIVE dfs(_, _, _, _)
RECURSIVE dfs_deps(_, _, _, _, _)

\* st = [color, cycles]; the path is passed by value (path.copy())
dfs(g, node, path, st) ==
    IF st.color[node] = GRAY
    THEN [st EXCEPT !.cycles =
            Append(@, SubSeq(path, index(path, node), Len(path)) \o <<node>>)]
    ELSE IF st.color[node] = BLACK
    THEN st
    ELSE LET entered == [st EXCEPT !.color[node] = GRAY]
             after == dfs_deps(g, get_dependencies(g, node), 1, Append(path, node), entered)
         IN [after EXCEPT !.color[node] = BLACK]

\* the loop over the dependencies leaving after its first iteration
dfs_deps_first_only(g, deps, i, path, st) ==
    IF i > Len(deps) \/ i > 1 THEN st
    ELSE dfs_deps(g, deps, i + 1, path,
                  IF deps[i] \in Known(g) THEN dfs(g, deps[i], path, st) ELSE st)

dfs_deps(g, deps, i, path, st) ==
    IF i > Len(deps) THEN st
    ELSE dfs_deps(g, deps, i + 1, path,
                  IF deps[i] \in Known(g) THEN dfs(g, deps[i], path, st) ELSE st)

RECURSIVE dfs_roots(_, _, _)
dfs_roots(g, i, st) ==
    IF i > Len(g.order) THEN st
    ELSE dfs_roots(g, i + 1,
                   IF st.color[g.order[i]] = WHITE THEN dfs(g, g.order[i], <<>>, st) ELSE st)

\* no deduplication: every recorded cycle is returned
unique_cycles_all(cycles, i, seen_cycle_sets, unique) == cycles

RECURSIVE unique_cycles(_, _, _, _)
unique_cycles(cycles, i, seen_cycle_sets, unique) ==
    IF i > Len(cycles) THEN unique
    ELSE LET cycle == cycles[i]
             cycle_set == Range(SubSeq(cycle, 1, Len(cycle) - 1))
         IN IF cycle_set \notin seen_cycle_sets
            THEN unique_cycles(cycles, i + 1, seen_cycle_sets \cup {cycle_set},
                               Append(unique, cycle))
            ELSE unique_cycles(cycles, i + 1, seen_cycle_sets, unique)

detect_cycles(g) ==
    LET st0 == [color |-> [node \in Known(g) |-> WHITE], cycles |-> <<>>]
    IN unique_cycles(dfs_roots(g, 1, st0).cycles, 1, {}, <<>>)

\* for task_id, deps in self._adjacency.items(): for dep in deps: the (task, dep)
\* pairs in iteration order
RECURSIVE edges_from(_, _, _)
edges_from(g, i, j) ==
    IF i > Len(g.order) THEN <<>>
    ELSE IF j > Len(g.adjacency[g.order[i]]) THEN edges_from(g, i + 1, 1)
    ELSE <<[task_id |-> g.order[i], dep |-> g.adjacency[g.order[i]][j]]>>
         \o edges_from(g, i, j + 1)

items(g) == edges_from(g, 1, 1)

\* detect_cross_sprint_violations comparing with >= instead of >
detect_cross_sprint_violations_ge(g, scope_sprint) ==
    LET violates(e) ==
            LET task_sprint == get_sprint(g, e.task_id)
                dep_sprint == get_sprint(g, e.dep)
            IN /\ task_sprint # NoSprint
               /\ ~(scope_sprint # NoSprint /\ task_sprint # scope_sprint)
               /\ dep_sprint # NoSprint
               /\ dep_sprint >= task_sprint
        found == SelectSeq(items(g), violates)
    IN [k \in 1..Len(found) |->
           [task_id |-> found[k].task_id,
            task_sprint |-> get_sprint(g, found[k].task_id),
            dependency_id |-> found[k].dep,
            dependency_sprint |-> get_sprint(g, found[k].dep),
            is_allowed |-> g.cross_sprint_allowed[found[k].task_id]]]

\* detect_cross_sprint_violations reading the flag of the dependency, not of the task
detect_cross_sprint_violations_dep_flag(g, scope_sprint) ==
    LET violates(e) ==
            LET task_sprint == get_sprint(g, e.task_id)
                dep_sprint == get_sprint(g, e.dep)
            IN /\ task_sprint # NoSprint
               /\ ~(scope_sprint # NoSprint /\ task_sprint # scope_sprint)
               /\ dep_sprint # NoSprint
               /\ dep_sprint > task_sprint
        found == SelectSeq(items(g), violates)
    IN [k \in 1..Len(found) |->
           [task_id |-> found[k].task_id,
            task_sprint |-> get_sprint(g, found[k].task_id),
            dependency_id |-> found[k].dep,
            dependency_sprint |-> get_sprint(g, found[k].dep),
            is_allowed |-> g.cross_sprint_allowed[found[k].dep]]]

detect_cross_sprint_violations(g, scope_sprint) ==
    LET violates(e) ==
            LET task_sprint == get_sprint(g, e.task_id)
                dep_sprint == get_sprint(g, e.dep)
            IN /\ task_sprint # NoSprint
               /\ ~(scope_sprint # NoSprint /\ task_sprint # scope_sprint)
               /\ dep_sprint # NoSprint
               /\ dep_sprint > task_sprint
        found == SelectSeq(items(g), violates)
    IN [k \in 1..Len(found) |->
           [task_id |-> found[k].task_id,
            task_sprint |-> get_sprint(g, found[k].task_id),
            dependency_id |-> found[k].dep,
            dependency_sprint |-> get_sprint(g, found[k].dep),
            is_allowed |-> g.cross_sprint_allowed[found[k].task_id]]]

\* every dependency entry reported, whether or not its target is known
find_unresolved_dependencies_all_edges(g) ==
    LET found == items(g)
    IN [k \in 1..Len(found) |-> <<found[k].task_id, found[k].dep>>]

find_unresolved_dependencies(g) ==
    LET known_tasks == task_ids(g)
        missing(e) == e.dep \notin known_tasks
        found == SelectSeq(items(g), missing)
    IN [k \in 1..Len(found) |-> <<found[k].task_id, found[k].dep>>]

\* the count of a task's own dependency entries in place of its dependents
compute_fanout_own_dependencies(g) ==
    [task_id \in Known(g) |-> Len(g.adjacency[task_id])]

compute_fanout(g) ==
    LET edges == items(g)
    IN [task_id \in Known(g) |->
           Cardinality({k \in 1..Len(edges) : edges[k].dep = task_id})]

\* the inner loop of Kahn's algorithm over dependents[node]; st = [in_degree, queue]
RECURSIVE release(_, _, _)
release(deps_of_node, k, st) ==
    IF k > Len(deps_of_node) THEN st
    ELSE LET dependent == deps_of_node[k]
             degree == st.in_degree[dependent] - 1
         IN release(deps_of_node, k + 1,
                    [in_degree |-> [st.in_degree EXCEPT ![dependent] = degree],
                     queue |-> IF degree = 0 THEN Append(st.queue, dependent) ELSE st.queue])

RECURSIVE kahn(_, _, _)
kahn(dependents, st, result) ==
    IF st.queue = <<>> THEN result
    ELSE LET node == Head(st.queue)
         IN kahn(dependents,
                 release(dependents[node], 1, [st EXCEPT !.queue = Tail(@)]),
                 Append(result, node))

\* topological_sort raising with the last cycle found instead of the first
topological_sort_last_cycle(g) ==
    LET cycles == detect_cycles(g)
    IN IF cycles # <<>>
       THEN [raised |-> "CycleError", cycle |-> cycles[Len(cycles)]]
       ELSE LET known_edges == SelectSeq(items(g), LAMBDA e : e.dep \in Known(g))
                dependents == [node \in Known(g) |->
                    LET into == SelectSeq(known_edges, LAMBDA e : e.dep = node)
                    IN [k \in 1..Len(into) |-> into[k].task_id]]
                in_degree == [node \in Known(g) |->
                    Cardinality({k \in 1..Len(known_edges) : known_edges[k].task_id = node})]
                queue == SelectSeq(g.order, LAMBDA node : in_degree[node] = 0)
            IN [raised |-> "", result |-> kahn(dependents, [in_degree |-> in_degree, queue |-> queue], <<>>)]

\* topological_sort whose in-degree is len(deps), unknown targets included
topological_sort_all_deps(g) ==
    LET cycles == detect_cycles(g)
    IN IF cycles # <<>>
       THEN [raised |-> "CycleError", cycle |-> cycles[1]]
       ELSE LET known_edges == SelectSeq(items(g), LAMBDA e : e.dep \in Known(g))
                dependents == [node \in Known(g) |->
                    LET into == SelectSeq(known_edges, LAMBDA e : e.dep = node)
                    IN [k \in 1..Len(into) |-> into[k].task_id]]
                in_degree == [node \in Known(g) |->
                    Len(g.adjacency[node])]
                queue == SelectSeq(g.order, LAMBDA node : in_degree[node] = 0)
            IN [raised |-> "", result |-> kahn(dependents, [in_degree |-> in_degree, queue |-> queue], <<>>)]

topological_sort(g) ==
    LET cycles == detect_cycles(g)
    IN IF cycles # <<>>
       THEN [raised |-> "CycleError", cycle |-> cycles[1]]
       ELSE LET known_edges == SelectSeq(items(g), LAMBDA e : e.dep \in Known(g))
                dependents == [node \in Known(g) |->
                    LET into == SelectSeq(known_edges, LAMBDA e : e.dep = node)
                    IN [k \in 1..Len(into) |-> into[k].task_id]]
                in_degree == [node \in Known(g) |->
                    Cardinality({k \in 1..Len(known_edges) : known_edges[k].task_id = node})]
                queue == SelectSeq(g.order, LAMBDA node : in_degree[node] = 0)
            IN [raised |-> "", result |-> kahn(dependents, [in_degree |-> in_degree, queue |-> queue], <<>>)]

get_tasks_for_sprint(g, sprint) ==
    {task_id \in DOMAIN g.sprints : g.sprints[task_id] = sprint}

(***************************************************************************)
(* Raw strings are sequences of one-character strings                      *)
(***************************************************************************)
LowerChars == <<"a", "b", "c", "d", "e", "f", "g", "h", "i", "j", "k", "l", "m",
                "n", "o", "p", "q", "r", "s", "t", "u", "v", "w", "x", "y", "z">>
UpperChars == <<"A", "B", "C", "D", "E", "F", "G", "H", "I", "J", "K", "L", "M",
                "N", "O", "P", "Q", "R", "S", "T", "U", "V", "W", "X", "Y", "Z">>
Whitespace == {" ", "\t", "\n"}

upper_char(c) ==
    IF \E i \in 1..Len(LowerChars) : LowerChars[i] = c
    THEN UpperChars[CHOOSE i \in 1..Len(LowerChars) : LowerChars[i] = c] ELSE c

lower_char(c) ==
    IF \E i \in 1..Len(UpperChars) : UpperChars[i] = c
    THEN LowerChars[CHOOSE i \in 1..Len(UpperChars) : UpperChars[i] = c] ELSE c

upper(v) == [i \in 1..Len(v) |-> upper_char(v[i])]
lower(v) == [i \in 1..Len(v) |-> lower_char(v[i])]

strip(v) ==
    LET keep == {i \in 1..Len(v) : v[i] \notin Whitespace}
    IN IF keep = {} THEN <<>>
       ELSE SubSeq(v, CHOOSE i \in keep : \A j \in keep : i <= j,
                      CHOOSE i \in keep : \A j \in keep : i >= j)

startswith(v, prefix) ==
    Len(v) >= Len(prefix) /\ SubSeq(v, 1, Len(prefix)) = prefix

\* truthiness of an Optional raw string, tuple or list
Truthy(v) == v # NoneSeq /\ v # <<>>

(***************************************************************************)
(* Tier, GateProfile, TaskStatus                                           *)
(***************************************************************************)
TierValues == {"A", "B", "C"}

Tier_from_string(value) ==
    IF ~Truthy(value) THEN "C"
    ELSE LET normalized == upper(strip(value))
         IN IF normalized \in {<<"A">>, <<"B">>, <<"C">>} THEN normalized[1] ELSE "C"

GateProfileChars ==
    [none |-> <<"n", "o", "n", "e">>,
     basic |-> <<"b", "a", "s", "i", "c">>,
     standard |-> <<"s", "t", "a", "n", "d", "a", "r", "d">>,
     strict |-> <<"s", "t", "r", "i", "c", "t">>]

GateProfileValues == DOMAIN GateProfileChars

GateProfile_from_string(value) ==
    IF ~Truthy(value) THEN "none"
    ELSE LET normalized == lower(strip(value))
         IN IF startswith(normalized, <<"c", "u", "s", "t", "o", "m", ":">>) THEN "strict"
            ELSE IF \E p \in GateProfileValues : GateProfileChars[p] = normalized
            THEN CHOOSE p \in GateProfileValues : GateProfileChars[p] = normalized
            ELSE "none"

TaskStatusValues ==
    {"Planned", "In Progress", "Validating", "Completed", "Blocked", "Failed", "Backlog"}

\* status.value of every member of TaskStatus
TaskStatusChars ==
    ("Planned" :> <<"P", "l", "a", "n", "n", "e", "d">>) @@
    ("In Progress" :> <<"I", "n", " ", "P", "r", "o", "g", "r", "e", "s", "s">>) @@
    ("Validating" :> <<"V", "a", "l", "i", "d", "a", "t", "i", "n", "g">>) @@
    ("Completed" :> <<"C", "o", "m", "p", "l", "e", "t", "e", "d">>) @@
    ("Blocked" :> <<"B", "l", "o", "c", "k", "e", "d">>) @@
    ("Failed" :> <<"F", "a", "i", "l", "e", "d">>) @@
    ("Backlog" :> <<"B", "a", "c", "k", "l", "o", "g">>)

\* mutant of TaskStatus.from_string: the alias "done" is not handled
TaskStatus_from_string_no_alias(value) ==
    IF ~Truthy(value) THEN "Planned"
    ELSE LET normalized == strip(value)
         IN IF \E status \in TaskStatusValues :
                   lower(TaskStatusChars[status]) = lower(normalized)
            THEN CHOOSE status \in TaskStatusValues :
                     lower(TaskStatusChars[status]) = lower(normalized)
            ELSE "Planned"

TaskStatus_from_string(value) ==
    IF ~Truthy(value) THEN "Planned"
    ELSE LET normalized == strip(value)
         IN IF \E status \in TaskStatusValues :
                   lower(TaskStatusChars[status]) = lower(normalized)
            THEN CHOOSE status \in TaskStatusValues :
                     lower(TaskStatusChars[status]) = lower(normalized)
            ELSE IF lower(normalized) = <<"d", "o", "n", "e">> THEN "Completed"
            ELSE "Planned"

(***************************************************************************)
(* Task (frozen dataclass) and with_override                               *)
(***************************************************************************)
\* sorted(ids): the ids of the set in string order
sorted(S) == SelectSeq(IdOrder, LAMBDA id : id \in S)

\* mutants of with_override
with_override_add_then_remove(self, tier, gate_profile, acceptance_owner, evidence_required, dependencies_add, dependencies_remove, sprint_override) ==
    LET added == IF Truthy(dependencies_add)
                 THEN Range(self.dependencies) \cup Range(dependencies_add)
                 ELSE Range(self.dependencies)
        new_deps == IF Truthy(dependencies_remove) THEN added \ Range(dependencies_remove)
                    ELSE added
    IN [self EXCEPT
           !.dependencies = sorted(new_deps),
           !.sprint = IF sprint_override # NoSprint THEN sprint_override ELSE self.sprint,
           !.tier = IF tier # None THEN tier ELSE self.tier,
           !.gate_profile = IF gate_profile # None THEN gate_profile ELSE self.gate_profile,
           !.acceptance_owner =
               IF acceptance_owner # None THEN acceptance_owner ELSE self.acceptance_owner,
           !.evidence_required =
               IF evidence_required # NoneSeq THEN evidence_required ELSE self.evidence_required]

with_override_toggles_add(self, tier, gate_profile, acceptance_owner, evidence_required, dependencies_add, dependencies_remove, sprint_override) ==
    LET kept == IF Truthy(dependencies_remove)
                THEN Range(self.dependencies) \ Range(dependencies_remove)
                ELSE Range(self.dependencies)
        new_deps == IF Truthy(dependencies_add)
                    THEN (kept \ Range(dependencies_add)) \cup (Range(dependencies_add) \ kept)
                    ELSE kept
    IN [self EXCEPT
           !.dependencies = sorted(new_deps),
           !.sprint = IF sprint_override # NoSprint THEN sprint_override ELSE self.sprint,
           !.tier = IF tier # None THEN tier ELSE self.tier,
           !.gate_profile = IF gate_profile # None THEN gate_profile ELSE self.gate_profile,
           !.acceptance_owner =
               IF acceptance_owner # None THEN acceptance_owner ELSE self.acceptance_owner,
           !.evidence_required =
               IF evidence_required # NoneSeq THEN evidence_required ELSE self.evidence_required]

\* Task(...) built from self: the listed fields replaced, every other field copied
with_override(self, tier, gate_profile, acceptance_owner, evidence_required, dependencies_add, dependencies_remove, sprint_override) ==
    LET kept == IF Truthy(dependencies_remove)
                THEN Range(self.dependencies) \ Range(dependencies_remove)
                ELSE Range(self.dependencies)
        new_deps == IF Truthy(dependencies_add) THEN kept \cup Range(dependencies_add)
                    ELSE kept
    IN [task_id |-> self.task_id,
        section |-> self.section,
        description |-> self.description,
        owner |-> self.owner,
        dependencies |-> sorted(new_deps),
        sprint |-> IF sprint_override # NoSprint THEN sprint_override ELSE self.sprint,
        status |-> self.status,
        tier |-> IF tier # None THEN tier ELSE self.tier,
        gate_profile |-> IF gate_profile # None THEN gate_profile ELSE self.gate_profile,
        acceptance_owner |->
            IF acceptance_owner # None THEN acceptance_owner ELSE self.acceptance_owner,
        evidence_required |->
            IF evidence_required # NoneSeq THEN evidence_required ELSE self.evidence_required,
        acceptance_criteria |-> self.acceptance_criteria,
        artifacts_expected |-> self.artifacts_expected,
        adr_required |-> self.adr_required,
        risk |-> self.risk,
        review_required |-> self.review_required,
        waiver_policy |-> self.waiver_policy,
        cross_sprint_allowed |-> self.cross_sprint_allowed,
        cross_sprint_reason |-> self.cross_sprint_reason,
        definition_of_done |-> self.definition_of_done,
        kpis |-> self.kpis,
        validation_method |-> self.validation_method]

\* TaskOverride with the defaults of the dataclass
TaskOverride(task_id) ==
    [task_id |-> task_id, tier |-> NoneSeq, gate_profile |-> <<>>, acceptance_owner |-> None,
     acceptance_criteria |-> <<>>, evidence_required |-> <<>>, override_deps_add |-> <<>>,
     override_deps_remove |-> <<>>, sprint_override |-> NoSprint, exception_policy |-> None,
     debt_allowed |-> FALSE, waiver_expiry |-> NoDate, notes |-> None]

\* LintPlanUseCase._apply_override: the TaskOverride turned into with_override arguments
apply_override(task, override) ==
    LET tier == IF Truthy(override.tier) THEN Tier_from_string(override.tier) ELSE None
        gate_profile == IF override.gate_profile # <<>>
                        THEN GateProfile_from_string(override.gate_profile[1]) ELSE None
        evidence_required == IF override.evidence_required # <<>>
                             THEN override.evidence_required ELSE NoneSeq
        dependencies_add == IF override.override_deps_add # <<>>
                            THEN override.override_deps_add ELSE NoneSeq
        dependencies_remove == IF override.override_deps_remove # <<>>
                               THEN override.override_deps_remove ELSE NoneSeq
    IN with_override(task, tier, gate_profile, override.acceptance_owner, evidence_required,
                     dependencies_add, dependencies_remove, override.sprint_override)

(***************************************************************************)
(* Validation results                                                      *)
(***************************************************************************)
\* a message is the sequence of the pieces of the formatted text: words of the format
\* string and task ids (text), and interpolated raw strings (value)
Text(w) == [text |-> w, value |-> <<>>]
Value(v) == [text |-> "", value |-> v]
Words(ws) == [i \in 1..Len(ws) |-> Text(ws[i])]
Values(vs) == [i \in 1..Len(vs) |-> Value(vs[i])]

ValidationResult(rule_id, severity, message, tasks, priority, metadata) ==
    [rule_id |-> rule_id, severity |-> severity, message |-> message, tasks |-> tasks,
     priority |-> priority, metadata |-> metadata]

create_cycle_error(cycle) ==
    ValidationResult("NO_CYCLES", "error",
                     Words(<<"Dependency", "cycle", "detected:">> \o cycle),
                     SubSeq(cycle, 1, Len(cycle) - 1), "critical", <<>>)

create_cross_sprint_error(task_id, task_sprint, dep_id, dep_sprint) ==
    ValidationResult("NO_CROSS_SPRINT_UNRESOLVED", "error",
                     Words(<<"Cross-sprint", "dependency:", task_id, "depends", "on", dep_id>>),
                     <<task_id, dep_id>>, "high", <<>>)

create_unresolved_dep_error(task_id, dep) ==
    ValidationResult("DEPS_RESOLVE", "error",
                     Words(<<"Task", task_id, "has", "unresolved", "dependency:", dep>>),
                     <<task_id>>, "high", <<>>)

create_tier_a_missing_gates_error(task_id) ==
    ValidationResult("TIER_A_GATES_REQUIRED", "error",
                     Words(<<"Tier", "A", "task", task_id, "missing", "gate_profile">>),
                     <<task_id>>, "high", <<>>)

create_tier_a_missing_owner_error(task_id) ==
    ValidationResult("TIER_A_OWNER_REQUIRED", "error",
                     Words(<<"Tier", "A", "task", task_id, "missing", "acceptance_owner">>),
                     <<task_id>>, "high", <<>>)

create_tier_a_missing_evidence_error(task_id) ==
    ValidationResult("TIER_A_EVIDENCE_REQUIRED", "error",
                     Words(<<"Tier", "A", "task", task_id, "missing", "evidence_required">>),
                     <<task_id>>, "high", <<>>)

create_tier_a_missing_acceptance_error(task_id) ==
    ValidationResult("TIER_A_ACCEPTANCE_REQUIRED", "error",
                     Words(<<"Tier", "A", "task", task_id, "missing", "acceptance_criteria">>),
                     <<task_id>>, "high", <<>>)

create_duplicate_id_error(task_id, count) ==
    ValidationResult("TASK_ID_UNIQUE", "error",
                     Words(<<"Task", "ID", task_id, "appears", "several", "times">>),
                     <<task_id>>, "critical", <<>>)

create_high_fanout_warning(task_id, fanout) ==
    ValidationResult("HIGH_FANOUT", "info",
                     Words(<<"Task", task_id, "has", "direct", "dependents", "(high",
                             "fan-out)">>),
                     <<task_id>>, "high", [fanout |-> fanout])

create_missing_validation_warning(task_id, section) ==
    ValidationResult("MISSING_VALIDATION", "warning",
                     Words(<<"Task", task_id, "has", "no", "validation", "commands", "in",
                             "validation.yaml">>),
                     <<task_id>>, "medium", [section |-> section])

MaxListedArtifacts == 3

\* suggestions is the sequence of the (old, new) items of the dict, <<>> for None
create_phantom_completion_error(task_id, missing_artifacts, suggestions) ==
    ValidationResult("PHANTOM_COMPLETION", "error",
                     Words(<<"PHANTOM", "COMPLETION:", "Task", task_id, "marked", "Completed",
                             "but", "missing", "artifacts:">>)
                     \o Values(SubSeq(missing_artifacts, 1,
                                      IF Len(missing_artifacts) > MaxListedArtifacts
                                      THEN MaxListedArtifacts ELSE Len(missing_artifacts)))
                     \o (IF Len(missing_artifacts) > MaxListedArtifacts
                         THEN Words(<<"(+more)">>) ELSE <<>>),
                     <<task_id>>, "critical",
                     [missing_artifacts |-> missing_artifacts,
                      missing_count |-> Len(missing_artifacts),
                      suggestions |-> suggestions])

MaxQuotedPathLen == 50

\* validity is the pair is_valid_artifact_path returned: its reason and the verb quoted
create_invalid_artifact_path_error(task_id, invalid_path, validity) ==
    ValidationResult("INVALID_ARTIFACT_PATH", "error",
                     Words(<<"INVALID", "ARTIFACT", "PATH:", "Task", task_id, "has",
                             "non-path", "artifact:">>)
                     \o <<Value(SubSeq(invalid_path, 1,
                                       IF Len(invalid_path) > MaxQuotedPathLen
                                       THEN MaxQuotedPathLen ELSE Len(invalid_path))),
                          Text(validity.reason), Value(validity.detail)>>,
                     <<task_id>>, "critical",
                     [invalid_path |-> invalid_path, reason |-> validity.reason])

create_artifact_suggestion_warning(task_id, expected_path, suggested_path) ==
    ValidationResult("ARTIFACT_PATH_SUGGESTION", "warning",
                     <<Text("Task"), Text(task_id), Text("artifact"), Value(expected_path),
                       Text("not"), Text("found,"), Text("but"), Text("similar"), Text("file"),
                       Text("exists"), Text("at"), Value(suggested_path)>>,
                     <<task_id>>, "medium",
                     [expected_path |-> expected_path, suggested_path |-> suggested_path])

(***************************************************************************)
(* Artifact paths: str methods, the files under the project root           *)
(***************************************************************************)
Digits == {"0", "1", "2", "3", "4", "5", "6", "7", "8", "9"}

isalnum(c) == c \in Range(LowerChars) \cup Range(UpperChars) \cup Digits

\* sub occurs in v at index i
OccursAt(v, sub, i) == \A j \in 1..Len(sub) : v[i + j - 1] = sub[j]

\* sub in v
Contains(v, sub) == \E i \in 1..(Len(v) - Len(sub) + 1) : OccursAt(v, sub, i)

\* v.find(sub) + 1, 0 when sub does not occur (sub is not empty)
Find(v, sub) ==
    LET at == {i \in 1..(Len(v) - Len(sub) + 1) : OccursAt(v, sub, i)}
    IN IF at = {} THEN 0 ELSE CHOOSE i \in at : \A j \in at : i <= j

\* v.replace(old, new) for a non-empty old: every occurrence, left to right
RECURSIVE replace(_, _, _)
replace(v, old, new) ==
    Let(Find(v, old), LAMBDA i :
        IF i = 0 THEN v
        ELSE SubSeq(v, 1, i - 1) \o new \o replace(SubSeq(v, i + Len(old), Len(v)), old, new))

\* v.split(sep)[-1] and v.split(sep)[0] for a one-character sep
AfterLast(v, sep) ==
    LET at == {i \in 1..Len(v) : v[i] = sep}
    IN IF at = {} THEN v
       ELSE SubSeq(v, (CHOOSE i \in at : \A j \in at : i >= j) + 1, Len(v))

BeforeFirst(v, sep) ==
    LET at == {i \in 1..Len(v) : v[i] = sep}
    IN IF at = {} THEN v
       ELSE SubSeq(v, 1, (CHOOSE i \in at : \A j \in at : i <= j) - 1)

lstrip(v, chars) ==
    LET keep == {i \in 1..Len(v) : v[i] \notin chars}
    IN IF keep = {} THEN <<>>
       ELSE SubSeq(v, CHOOSE i \in keep : \A j \in keep : i <= j, Len(v))

rstrip(v, chars) ==
    LET keep == {i \in 1..Len(v) : v[i] \notin chars}
    IN IF keep = {} THEN <<>>
       ELSE SubSeq(v, 1, CHOOSE i \in keep : \A j \in keep : i >= j)

\* len(v.split()): the number of maximal runs of non-whitespace characters
WordCount(v) ==
    Cardinality({i \in 1..Len(v) :
                    v[i] \notin Whitespace /\ (i = 1 \/ v[i - 1] \in Whitespace)})

\* the components of a path: split at "/", empty and "." components dropped
RECURSIVE Components(_)
Components(v) ==
    IF v = <<>> THEN <<>>
    ELSE Let(BeforeFirst(v, "/"), LAMBDA head :
             (IF head \in {<<>>, <<".">>} THEN <<>> ELSE <<head>>)
             \o Components(IF Len(head) = Len(v) THEN <<>>
                           ELSE SubSeq(v, Len(head) + 2, Len(v))))

\* (project_root / path).exists(): fs holds the component lists that exist under the
\* root (relative) and outside of it (absolute); the root itself exists. The paths
\* of the runs hold no ".." component
exists(fs, path) ==
    Let(Components(path), LAMBDA parts :
        IF startswith(path, <<"/">>) THEN parts \in fs.absolute
        ELSE parts = <<>> \/ parts \in fs.relative)

\* the longest file name the file system of the project root accepts
NameMax == 255

\* Path.exists() lets the OSError of stat() through when a component of the path is
\* longer than the file system accepts (ENAMETOOLONG is not among the errors it hides)
exists_raises(path) ==
    \E part \in Range(Components(path)) : Len(part) > NameMax

prose_starters ==
    <<<<"a", " ">>,
      <<"a", "n", " ">>,
      <<"t", "h", "e", " ">>,
      <<"a", "l", "l", " ">>,
      <<"n", "o", " ">>,
      <<"e", "a", "c", "h", " ">>,
      <<"e", "v", "e", "r", "y", " ">>,
      <<"t", "h", "i", "s", " ">>,
      <<"t", "h", "a", "t", " ">>>>

prose_patterns ==
    <<<<" ", "i", "s", " ">>,
      <<" ", "a", "r", "e", " ">>,
      <<" ", "w", "a", "s", " ">>,
      <<" ", "w", "e", "r", "e", " ">>,
      <<" ", "h", "a", "s", " ">>,
      <<" ", "h", "a", "v", "e", " ">>,
      <<" ", "h", "a", "d", " ">>,
      <<" ", "r", "u", "n", "n", "i", "n", "g", " ">>,
      <<" ", "c", "o", "n", "f", "i", "g", "u", "r", "e", "d", " ">>,
      <<" ", "e", "n", "a", "b", "l", "e", "d", " ">>,
      <<" ", "i", "n", "s", "t", "a", "l", "l", "e", "d", " ">>,
      <<" ", "s", "t", "o", "r", "e", "d", " ">>,
      <<" ", "v", "e", "r", "i", "f", "i", "e", "d", " ">>,
      <<" ", "c", "o", "m", "p", "l", "e", "t", "e", "d", " ">>,
      <<" ", "g", "e", "n", "e", "r", "a", "t", "e", "d", " ">>,
      <<" ", "c", "r", "e", "a", "t", "e", "d", " ">>>>

MaxSingleNameLen == 30

\* is_valid_artifact_path(path): [is_valid, reason]
is_valid_artifact_path(raw) ==
    Let(strip(raw), LAMBDA path :
    Let(lower(path), LAMBDA lowered :
    LET has_path_separator == "/" \in Range(path) \/ "\\" \in Range(path)
        has_extension == IF "/" \in Range(path) THEN "." \in Range(AfterLast(path, "/"))
                         ELSE "." \in Range(path)
        has_glob == "*" \in Range(path)
        starts_valid == isalnum(path[1]) \/ path[1] \in {".", "/"}
        verbs == SelectSeq(prose_patterns, LAMBDA pattern : Contains(lowered, pattern))
    IN IF path = <<>> THEN [is_valid |-> FALSE, reason |-> "empty path", detail |-> <<>>]
       ELSE IF WordCount(path) > 4 /\ " " \in Range(path) /\ "/" \notin Range(path)
               /\ "\\" \notin Range(path)
       THEN [is_valid |-> FALSE, reason |-> "looks like prose", detail |-> <<>>]
       ELSE IF \E k \in 1..Len(prose_starters) : startswith(lowered, prose_starters[k])
       THEN [is_valid |-> FALSE, reason |-> "starts with article/determiner", detail |-> <<>>]
       ELSE IF verbs # <<>>
       THEN [is_valid |-> FALSE, reason |-> "contains verb phrase", detail |-> strip(verbs[1])]
       ELSE IF ~starts_valid
       THEN [is_valid |-> FALSE, reason |-> "doesn't start with valid path character",
             detail |-> <<>>]
       ELSE IF ~has_path_separator /\ ~has_extension /\ ~has_glob
               /\ Len(path) > MaxSingleNameLen
       THEN [is_valid |-> FALSE, reason |-> "too long for single directory name",
             detail |-> <<>>]
       ELSE [is_valid |-> TRUE, reason |-> "valid", detail |-> <<>>]))

path_variations ==
    <<<<<<"a", "r", "t", "i", "f", "a", "c", "t", "s", "/", "m", "i", "s", "c", "/">>,
       <<>>>>,
      <<<<"a", "r", "t", "i", "f", "a", "c", "t", "s", "/">>,
       <<>>>>,
      <<<<"p", "a", "c", "k", "a", "g", "e", "s", "/", "a", "i", "/">>,
       <<"a", "p", "p", "s", "/", "a", "i", "-", "w", "o", "r", "k", "e", "r", "/">>>>,
      <<<<"p", "a", "c", "k", "a", "g", "e", "s", "/", "a", "p", "i", "/">>,
       <<"a", "p", "p", "s", "/", "a", "p", "i", "/">>>>,
      <<<<"p", "a", "c", "k", "a", "g", "e", "s", "/", "a", "p", "i", "/", "s", "r", "c",
        "/">>,
       <<"a", "p", "p", "s", "/", "a", "p", "i", "/", "s", "r", "c", "/">>>>,
      <<<<"a", "p", "p", "s", "/", "w", "e", "b", "/", "c", "o", "m", "p", "o", "n", "e",
        "n", "t", "s", "/">>,
       <<"a", "p", "p", "s", "/", "w", "e", "b", "/", "s", "r", "c", "/", "c", "o", "m",
        "p", "o", "n", "e", "n", "t", "s", "/">>>>,
      <<<<"a", "p", "p", "s", "/", "w", "e", "b", "/", "c", "o", "m", "p", "o", "n", "e",
        "n", "t", "s", "/">>,
       <<"p", "a", "c", "k", "a", "g", "e", "s", "/", "u", "i", "/", "s", "r", "c", "/",
        "c", "o", "m", "p", "o", "n", "e", "n", "t", "s", "/">>>>,
      <<<<"a", "p", "p", "s", "/", "w", "e", "b", "/", "c", "o", "m", "p", "o", "n", "e",
        "n", "t", "s", "/", "u", "i", "/">>,
       <<"p", "a", "c", "k", "a", "g", "e", "s", "/", "u", "i", "/", "s", "r", "c", "/",
        "c", "o", "m", "p", "o", "n", "e", "n", "t", "s", "/">>>>,
      <<<<"a", "r", "t", "i", "f", "a", "c", "t", "s", "/", "m", "i", "s", "c", "/", "p",
        "r", "i", "s", "m", "a", "/">>,
       <<"p", "a", "c", "k", "a", "g", "e", "s", "/", "d", "b", "/", "p", "r", "i", "s",
        "m", "a", "/">>>>,
      <<<<"a", "r", "t", "i", "f", "a", "c", "t", "s", "/", "m", "i", "s", "c", "/">>,
       <<"d", "o", "c", "s", "/">>>>>>

\* the loop over path_variations from the k-th pair on; st = [suggestions, done]
RECURSIVE try_variations(_, _, _, _, _, _)
try_variations(missing_path, filename, fs, max_suggestions, k, suggestions) ==
    IF k > Len(path_variations) THEN [suggestions |-> suggestions, returned |-> FALSE]
    ELSE Let(replace(missing_path, path_variations[k][1], path_variations[k][2]),
             LAMBDA replaced :
         Let(IF replaced = <<>> THEN filename ELSE replaced, LAMBDA alternative :
         Let(IF "*" \in Range(alternative)
             THEN rstrip(BeforeFirst(alternative, "*"), {"/"})
             ELSE lstrip(alternative, {"/"}), LAMBDA check_path :
         Let(/\ Contains(missing_path, path_variations[k][1])
             /\ exists(fs, check_path)
             /\ \A j \in 1..Len(suggestions) : suggestions[j] # alternative, LAMBDA found :
         Let(IF found THEN Append(suggestions, alternative) ELSE suggestions, LAMBDA next :
             IF found /\ Len(next) >= max_suggestions
             THEN [suggestions |-> next, returned |-> TRUE]
             ELSE try_variations(missing_path, filename, fs, max_suggestions, k + 1,
                                 next))))))

find_similar_paths(missing_path, fs, max_suggestions) ==
    Let(IF "/" \in Range(missing_path)
        THEN SelectSeq(AfterLast(missing_path, "/"), LAMBDA c : c # "*")
        ELSE missing_path, LAMBDA filename :
    IF filename = <<>> \/ filename = <<"*">> THEN <<>>
    ELSE Let(try_variations(missing_path, filename, fs, max_suggestions, 1, <<>>),
             LAMBDA tried :
       IF tried.returned THEN tried.suggestions
       ELSE IF /\ \/ Contains(missing_path, <<"a", "r", "t", "i", "f", "a", "c", "t", "s", "/", "m", "i", "s", "c", "/">>)
                  \/ Contains(missing_path, <<"a", "r", "t", "i", "f", "a", "c", "t", "s", "/">>)
               /\ exists(fs, filename)
               /\ \A j \in 1..Len(tried.suggestions) : tried.suggestions[j] # filename
       THEN Append(tried.suggestions, filename)
       ELSE tried.suggestions))

(***************************************************************************)
(* LintPlanUseCase                                                         *)
(***************************************************************************)
\* self.overrides.get(task_id) is not None
HasOverride(uc, task_id) == task_id \in DOMAIN uc.overrides

apply_overrides(uc) ==
    [i \in 1..Len(uc.tasks) |->
        IF HasOverride(uc, uc.tasks[i].task_id)
        THEN apply_override(uc.tasks[i], uc.overrides[uc.tasks[i].task_id])
        ELSE uc.tasks[i]]

RECURSIVE from_tasks_loop(_, _, _)
from_tasks_loop(g, tasks, i) ==
    IF i > Len(tasks) THEN g
    ELSE from_tasks_loop(add_task(g, tasks[i].task_id, tasks[i].dependencies,
                                  tasks[i].sprint, tasks[i].cross_sprint_allowed),
                         tasks, i + 1)

from_tasks(tasks) == from_tasks_loop(EmptyGraph, tasks, 1)

get_scoped_tasks(uc, tasks) ==
    IF uc.sprint_scope = NoSprint THEN tasks
    ELSE SelectSeq(tasks, LAMBDA t : t.sprint = uc.sprint_scope)

check_cycles(uc, g) ==
    LET cycles == detect_cycles(g)
        scoped_task_ids == {uc.tasks[i].task_id : i \in
                               {j \in 1..Len(uc.tasks) : uc.tasks[j].sprint = uc.sprint_scope}}
        kept == IF uc.sprint_scope # NoSprint
                THEN SelectSeq(cycles, LAMBDA cycle : Range(cycle) \cap scoped_task_ids # {})
                ELSE cycles
    IN [k \in 1..Len(kept) |-> create_cycle_error(kept[k])]

check_cross_sprint(uc, g) ==
    LET violations == detect_cross_sprint_violations(g, uc.sprint_scope)
        unresolved == SelectSeq(violations, LAMBDA v : ~v.is_allowed)
    IN [k \in 1..Len(unresolved) |->
           create_cross_sprint_error(unresolved[k].task_id, unresolved[k].task_sprint,
                                     unresolved[k].dependency_id,
                                     unresolved[k].dependency_sprint)]

check_unresolved_deps(uc, g) ==
    LET unresolved == find_unresolved_dependencies(g)
    IN [k \in 1..Len(unresolved) |->
           create_unresolved_dep_error(unresolved[k][1], unresolved[k][2])]

tier_a_requirement_errors(uc, task) ==
    LET has_override == HasOverride(uc, task.task_id)
        has_gates == task.gate_profile # "none"
                     \/ (has_override /\ uc.overrides[task.task_id].gate_profile # <<>>)
        has_owner == (task.acceptance_owner # None /\ task.acceptance_owner # "")
                     \/ (has_override
                         /\ uc.overrides[task.task_id].acceptance_owner # None
                         /\ uc.overrides[task.task_id].acceptance_owner # "")
        has_evidence == task.evidence_required # <<>>
                        \/ (has_override /\ uc.overrides[task.task_id].evidence_required # <<>>)
        has_acceptance == task.acceptance_criteria # ""
                          \/ (has_override
                              /\ uc.overrides[task.task_id].acceptance_criteria # <<>>)
    IN (IF ~has_gates THEN <<create_tier_a_missing_gates_error(task.task_id)>> ELSE <<>>)
       \o (IF ~has_owner THEN <<create_tier_a_missing_owner_error(task.task_id)>> ELSE <<>>)
       \o (IF ~has_evidence THEN <<create_tier_a_missing_evidence_error(task.task_id)>>
           ELSE <<>>)
       \o (IF ~has_acceptance THEN <<create_tier_a_missing_acceptance_error(task.task_id)>>
           ELSE <<>>)

check_tier_a_requirements(uc, tasks) ==
    LET errors_of(task) ==
            IF task.tier # "A" THEN <<>> ELSE tier_a_requirement_errors(uc, task)
        errors[i \in 0..Len(tasks)] ==
            IF i = 0 THEN <<>> ELSE errors[i - 1] \o errors_of(tasks[i])
    IN errors[Len(tasks)]

\* Counter(t.task_id for t in self.tasks): ids in first-occurrence order with counts
\* one error per row of a repeated id instead of one per id
check_unique_ids_per_row(uc) ==
    LET count(id) == Cardinality({i \in 1..Len(uc.tasks) : uc.tasks[i].task_id = id})
        rows == SelectSeq([i \in 1..Len(uc.tasks) |-> i],
                          LAMBDA i : count(uc.tasks[i].task_id) > 1)
    IN [k \in 1..Len(rows) |->
           create_duplicate_id_error(uc.tasks[rows[k]].task_id,
                                     count(uc.tasks[rows[k]].task_id))]

check_unique_ids(uc) ==
    LET count(id) == Cardinality({i \in 1..Len(uc.tasks) : uc.tasks[i].task_id = id})
        firsts == SelectSeq([i \in 1..Len(uc.tasks) |-> i],
                            LAMBDA i : \A j \in 1..(i - 1) :
                                uc.tasks[j].task_id # uc.tasks[i].task_id)
        dups == SelectSeq(firsts, LAMBDA i : count(uc.tasks[i].task_id) > 1)
    IN [k \in 1..Len(dups) |->
           create_duplicate_id_error(uc.tasks[dups[k]].task_id,
                                     count(uc.tasks[dups[k]].task_id))]

\* _extend_unique(existing, extra): the list after the call
RECURSIVE extend_unique(_, _)
extend_unique(existing, extra) ==
    IF extra = <<>> THEN existing
    ELSE extend_unique(IF Head(extra) \in Range(existing) THEN existing
                       ELSE Append(existing, Head(extra)),
                       Tail(extra))

collect_phantom_expected_artifacts(uc, task) ==
    LET with_override_evidence ==
            IF HasOverride(uc, task.task_id)
               /\ uc.overrides[task.task_id].evidence_required # <<>>
            THEN extend_unique(task.artifacts_expected,
                               uc.overrides[task.task_id].evidence_required)
            ELSE task.artifacts_expected
    IN extend_unique(with_override_evidence, task.evidence_required)

normalize_artifact_paths(artifact_paths) ==
    SelectSeq([i \in 1..Len(artifact_paths) |-> strip(artifact_paths[i])],
              LAMBDA value : value # <<>>)

\* _split_valid_artifacts: [errors, valid]
split_valid_artifacts(task_id, artifact_paths) ==
    Let([k \in 1..Len(artifact_paths) |-> is_valid_artifact_path(artifact_paths[k])],
        LAMBDA validity :
    Let(SelectSeq([k \in 1..Len(artifact_paths) |-> k], LAMBDA k : ~validity[k].is_valid),
        LAMBDA invalid :
    Let(SelectSeq([k \in 1..Len(artifact_paths) |-> k], LAMBDA k : validity[k].is_valid),
        LAMBDA valid :
        [errors |-> [k \in 1..Len(invalid) |->
                        create_invalid_artifact_path_error(task_id, artifact_paths[invalid[k]],
                                                           validity[invalid[k]])],
         valid |-> [k \in 1..Len(valid) |-> artifact_paths[valid[k]]]])))

artifact_exists(fs, artifact_path) ==
    IF "*" \in Range(artifact_path)
    THEN exists(fs, rstrip(BeforeFirst(artifact_path, "*"), {"/", "\\"}))
    ELSE exists(fs, artifact_path)

\* _find_missing_artifacts: [missing, suggestions]; the dict is the sequence of its
\* (key, value) items in insertion order, a repeated key keeping its first place
find_missing_artifacts(fs, artifact_paths) ==
    Let(SelectSeq(artifact_paths, LAMBDA path : ~artifact_exists(fs, path)), LAMBDA missing :
    Let([k \in 1..Len(missing) |-> find_similar_paths(missing[k], fs, 1)], LAMBDA similar :
    Let(SelectSeq([k \in 1..Len(missing) |-> k],
                  LAMBDA k : /\ similar[k] # <<>>
                             /\ \A j \in 1..(k - 1) : missing[j] # missing[k]), LAMBDA firsts :
        [missing |-> missing,
         suggestions |-> [k \in 1..Len(firsts) |->
                             <<missing[firsts[k]], similar[firsts[k]][1]>>]])))

phantom_completion_errors_for_task(uc, task, fs) ==
    Let(collect_phantom_expected_artifacts(uc, task), LAMBDA expected :
    Let(normalize_artifact_paths(expected), LAMBDA normalized :
    Let(split_valid_artifacts(task.task_id, normalized), LAMBDA split :
    Let(find_missing_artifacts(fs, split.valid), LAMBDA found :
        split.errors
        \o (IF found.missing # <<>>
            THEN <<create_phantom_completion_error(task.task_id, found.missing,
                                                   found.suggestions)>>
            ELSE <<>>)))))

check_phantom_completions(uc, tasks, fs) ==
    LET errors[i \in 0..Len(tasks)] ==
            IF i = 0 THEN <<>>
            ELSE errors[i - 1]
                 \o (IF tasks[i].status # "Completed" THEN <<>>
                     ELSE phantom_completion_errors_for_task(uc, tasks[i], fs))
    IN IF uc.project_root = None THEN <<>> ELSE errors[Len(tasks)]

check_tier_b_gates(uc, tasks) ==
    LET missing(task) ==
            /\ task.tier = "B"
            /\ ~(task.gate_profile # "none"
                 \/ (HasOverride(uc, task.task_id)
                     /\ uc.overrides[task.task_id].gate_profile # <<>>))
        found == SelectSeq(tasks, missing)
    IN [k \in 1..Len(found) |->
           ValidationResult("TIER_B_MISSING_GATES", "warning",
                            Words(<<"Tier", "B", "task", found[k].task_id, "missing",
                                    "gate_profile">>),
                            <<found[k].task_id>>, "medium", <<>>)]

\* a threshold that must be exceeded
exceeds_threshold(count, threshold) == count > threshold

reaches_threshold(count, threshold) == count >= threshold

fanout_get(fanout, task_id) == IF task_id \in DOMAIN fanout THEN fanout[task_id] ELSE 0

\* the task ids are iterated as a set: task_order is the order the set yields them in
check_high_fanout(uc, g, tasks, task_order) ==
    LET fanout == compute_fanout(g)
        count(task_id) == fanout_get(fanout, task_id)
        high == SelectSeq(task_order, LAMBDA task_id :
                             reaches_threshold(count(task_id), uc.fanout_threshold))
    IN [k \in 1..Len(high) |-> create_high_fanout_warning(high[k], count(high[k]))]

check_validation_coverage(uc, tasks) ==
    LET uncovered == SelectSeq(tasks, LAMBDA t : t.task_id \notin uc.validation_rules)
    IN [k \in 1..Len(uncovered) |->
           create_missing_validation_warning(uncovered[k].task_id, uncovered[k].section)]

\* (expiry - now).days for a date-only expiry: whole days, rounded down
days_until_expiry(waiver_expiry, at) ==
    waiver_expiry - at.day - (IF at.time > 0 THEN 1 ELSE 0)

WaiverWarningDays == 30

\* the result list, empty for None
waiver_expiry_warning(task_id, waiver_expiry, at) ==
    IF waiver_expiry = BadDate THEN <<>>
    ELSE LET days_until == days_until_expiry(waiver_expiry, at)
         IN IF days_until > WaiverWarningDays THEN <<>>
            ELSE <<ValidationResult("WAIVER_EXPIRING",
                                    IF days_until <= 0 THEN "error" ELSE "warning",
                                    Words(<<"Task", task_id, "waiver", "expires", "in",
                                            "days">>),
                                    <<task_id>>,
                                    IF days_until <= 0 THEN "critical" ELSE "high",
                                    [days_until_expiry |-> days_until])>>

check_waivers(uc, tasks, at) ==
    LET warning_of(task) ==
            IF ~HasOverride(uc, task.task_id)
               \/ uc.overrides[task.task_id].waiver_expiry = NoDate
            THEN <<>>
            ELSE waiver_expiry_warning(task.task_id,
                                       uc.overrides[task.task_id].waiver_expiry, at)
        warnings[i \in 0..Len(tasks)] ==
            IF i = 0 THEN <<>> ELSE warnings[i - 1] \o warning_of(tasks[i])
    IN warnings[Len(tasks)]

artifact_path_warnings_for_task(uc, task, fs) ==
    Let(IF HasOverride(uc, task.task_id)
           /\ uc.overrides[task.task_id].evidence_required # <<>>
        THEN task.artifacts_expected \o uc.overrides[task.task_id].evidence_required
        ELSE task.artifacts_expected, LAMBDA all_artifacts :
    Let(SelectSeq(normalize_artifact_paths(all_artifacts),
                  LAMBDA path : /\ is_valid_artifact_path(path).is_valid
                                /\ "*" \notin Range(path)
                                /\ ~exists(fs, path)), LAMBDA absent :
    Let([k \in 1..Len(absent) |-> find_similar_paths(absent[k], fs, 1)], LAMBDA similar :
    Let(SelectSeq([k \in 1..Len(absent) |-> k], LAMBDA k : similar[k] # <<>>),
        LAMBDA suggested :
        [k \in 1..Len(suggested) |->
            create_artifact_suggestion_warning(task.task_id, absent[suggested[k]],
                                               similar[suggested[k]][1])]))))

check_artifact_paths(uc, tasks, fs) ==
    LET warnings[i \in 0..Len(tasks)] ==
            IF i = 0 THEN <<>>
            ELSE warnings[i - 1] \o artifact_path_warnings_for_task(uc, tasks[i], fs)
    IN IF uc.project_root = None THEN <<>> ELSE warnings[Len(tasks)]

\* _artifact_exists raises on the path it hands to exists()
artifact_exists_raises(artifact_path) ==
    IF "*" \in Range(artifact_path)
    THEN exists_raises(rstrip(BeforeFirst(artifact_path, "*"), {"/", "\\"}))
    ELSE exists_raises(artifact_path)

\* _check_phantom_completions ends by an exception: a valid artifact of a Completed
\* task makes exists() raise (the alternatives find_similar_paths builds from a path
\* of at most NameMax characters hold no longer component)
check_phantom_completions_raises(uc, tasks) ==
    /\ uc.project_root # None
    /\ \E i \in 1..Len(tasks) :
           /\ tasks[i].status = "Completed"
           /\ LET expected == collect_phantom_expected_artifacts(uc, tasks[i])
                  normalized == normalize_artifact_paths(expected)
                  valid == split_valid_artifacts(tasks[i].task_id, normalized).valid
              IN \E k \in 1..Len(valid) : artifact_exists_raises(valid[k])

\* _check_artifact_paths ends by an exception
check_artifact_paths_raises(uc, tasks) ==
    /\ uc.project_root # None
    /\ \E i \in 1..Len(tasks) :
           LET task == tasks[i]
               all_artifacts ==
                   IF HasOverride(uc, task.task_id)
                      /\ uc.overrides[task.task_id].evidence_required # <<>>
                   THEN task.artifacts_expected \o uc.overrides[task.task_id].evidence_required
                   ELSE task.artifacts_expected
               normalized == normalize_artifact_paths(all_artifacts)
           IN \E k \in 1..Len(normalized) :
                  /\ is_valid_artifact_path(normalized[k]).is_valid
                  /\ "*" \notin Range(normalized[k])
                  /\ exists_raises(normalized[k])

\* the orders in which iterating the set {t.task_id for t in tasks} may yield its ids
SetOrders(tasks) ==
    LET ids == {tasks[i].task_id : i \in 1..Len(tasks)}
    IN {o \in [1..Cardinality(ids) -> ids] : Range(o) = ids}

\* the results of the list that name task_id: index.get(task_id, [])
index_results_by_task(results, task_id) ==
    SelectSeq(results, LAMBDA r : task_id \in Range(r.tasks))

\* the words of the message texts that contain "validation" once lower-cased
WordsWithValidation == {"validation", "validation.yaml"}

\* "validation" in w.message.lower(): in a word of the format string or inside an
\* interpolated raw string (the pieces are separated by spaces or quotes)
mentions_validation(message) ==
    \E k \in 1..Len(message) :
        \/ message[k].text \in WordsWithValidation
        \/ Contains(lower(message[k].value), <<"v", "a", "l", "i", "d", "a", "t", "i", "o", "n">>)

has_missing_validation_warning(warnings) ==
    \E k \in 1..Len(warnings) : mentions_validation(warnings[k].message)

review_reasons(uc, task, fanout, errors, warnings) ==
    LET dependent_count == fanout_get(fanout, task.task_id)
        errors_for_task == index_results_by_task(errors, task.task_id)
        warnings_for_task == index_results_by_task(warnings, task.task_id)
    IN (IF task.tier = "A"
        THEN <<[text |-> "Tier A task - requires explicit validation", n |-> 0]>> ELSE <<>>)
       \o (IF dependent_count >= uc.fanout_threshold
           THEN <<[text |-> "High fan-out", n |-> dependent_count]>> ELSE <<>>)
       \o (IF errors_for_task # <<>>
           THEN <<[text |-> "Has error(s)", n |-> Len(errors_for_task)]>> ELSE <<>>)
       \o (IF HasOverride(uc, task.task_id)
              /\ (uc.overrides[task.task_id].debt_allowed
                  \/ uc.overrides[task.task_id].waiver_expiry # NoDate)
           THEN <<[text |-> "Has waiver or debt_allowed", n |-> 0]>> ELSE <<>>)
       \o (IF has_missing_validation_warning(warnings_for_task)
           THEN <<[text |-> "Missing validation.yaml entry", n |-> 0]>> ELSE <<>>)

review_priority(task, has_task_errors) ==
    IF task.tier = "A" THEN "critical"
    ELSE IF has_task_errors THEN "high"
    ELSE "medium"

priority_order(priority) ==
    CASE priority = "critical" -> 0
      [] priority = "high" -> 1
      [] priority = "medium" -> 2
      [] OTHER -> 3

\* the queue left in insertion order
stable_sort_skipped(queue) == queue

\* list.sort(key=...): stable, ascending in the key
stable_sort(queue) ==
    LET at(rank) == SelectSeq(queue, LAMBDA e : priority_order(e.priority) = rank)
    IN at(0) \o at(1) \o at(2) \o at(3)

generate_review_queue(uc, tasks, g, errors, warnings) ==
    LET fanout == compute_fanout(g)
        entry(task) ==
            [task_id |-> task.task_id, tier |-> task.tier, section |-> task.section,
             status |-> task.status,
             owner |-> IF HasOverride(uc, task.task_id)
                       THEN uc.overrides[task.task_id].acceptance_owner ELSE task.owner,
             reasons |-> review_reasons(uc, task, fanout, errors, warnings),
             dependent_count |-> fanout_get(fanout, task.task_id),
             waiver_expiry |-> IF HasOverride(uc, task.task_id)
                               THEN uc.overrides[task.task_id].waiver_expiry ELSE NoDate,
             priority |-> review_priority(task,
                              index_results_by_task(errors, task.task_id) # <<>>)]
        queue[i \in 0..Len(tasks)] ==
            IF i = 0 THEN <<>>
            ELSE IF review_reasons(uc, tasks[i], fanout, errors, warnings) = <<>>
                 THEN queue[i - 1]
                 ELSE Append(queue[i - 1], entry(tasks[i]))
    IN stable_sort(queue[Len(tasks)])

\* round(numerator / denominator): Python rounds halves to the even integer
round_half_even(numerator, denominator) ==
    LET q == numerator \div denominator
        twice == 2 * (numerator % denominator)
    IN IF twice < denominator THEN q
       ELSE IF twice > denominator THEN q + 1
       ELSE IF q % 2 = 0 THEN q ELSE q + 1

generate_summary(uc, tasks, g, errors, warnings, review_queue) ==
    LET tiers == {tasks[i].tier : i \in 1..Len(tasks)}
        validated == Cardinality({i \in 1..Len(tasks) :
                                     tasks[i].task_id \in uc.validation_rules})
        ids == {tasks[i].task_id : i \in 1..Len(tasks)}
        with_deps == {tid \in ids : get_dependencies(g, tid) # <<>>}
        depended_upon == {dep \in ids : \E tid \in ids : dep \in Range(get_dependencies(g, tid))}
        sum[S \in SUBSET ids] ==
            IF S = {} THEN 0
            ELSE LET tid == CHOOSE x \in S : TRUE
                 IN Len(get_dependencies(g, tid)) + sum[S \ {tid}]
    IN [total_tasks |-> Len(tasks),
        tier_breakdown |-> [t \in tiers |->
                               Cardinality({i \in 1..Len(tasks) : tasks[i].tier = t})],
        error_count |-> Len(errors),
        warning_count |-> Len(warnings),
        review_queue_size |-> Len(review_queue),
        validation_coverage |->
            [tasks_with_validation |-> validated,
             tasks_without_validation |-> Len(tasks) - validated,
             coverage_percentage |-> IF tasks # <<>>
                                     THEN round_half_even(validated * 100, Len(tasks))
                                     ELSE 0],
        dependency_stats |->
            [total_dependencies |-> sum[ids],
             tasks_with_dependencies |-> Cardinality(with_deps),
             tasks_with_dependents |-> Cardinality(depended_upon),
             orphan_tasks |-> Cardinality(ids) - Cardinality(with_deps \cup depended_upon)]]

has_errors(errors) == Len(errors) > 0

exit_code(errors) == IF has_errors(errors) THEN 1 ELSE 0

\* execute(); task_order is the order in which the set of scoped ids is iterated
execute(uc, at, task_order, fs) ==
    Let(apply_overrides(uc), LAMBDA tasks :
    Let(from_tasks(tasks), LAMBDA g :
    Let(get_scoped_tasks(uc, tasks), LAMBDA scoped_tasks :
    Let(check_cycles(uc, g)
        \o check_cross_sprint(uc, g)
        \o check_unresolved_deps(uc, g)
        \o check_tier_a_requirements(uc, scoped_tasks)
        \o check_unique_ids(uc)
        \o check_phantom_completions(uc, scoped_tasks, fs), LAMBDA errors :
    Let(check_tier_b_gates(uc, scoped_tasks)
        \o check_high_fanout(uc, g, scoped_tasks, task_order)
        \o check_validation_coverage(uc, scoped_tasks)
        \o check_waivers(uc, scoped_tasks, at)
        \o check_artifact_paths(uc, scoped_tasks, fs), LAMBDA warnings :
    Let(generate_review_queue(uc, scoped_tasks, g, errors, warnings), LAMBDA review_queue :
        [ran |-> TRUE, errors |-> errors, warnings |-> warnings,
         review_queue |-> review_queue,
         summary |-> generate_summary(uc, scoped_tasks, g, errors, warnings,
                                      review_queue)]))))))

\* execute() is left by an exception instead of a return
execute_raises(uc) ==
    LET scoped_tasks == get_scoped_tasks(uc, apply_overrides(uc))
    IN \/ check_phantom_completions_raises(uc, scoped_tasks)
       \/ check_artifact_paths_raises(uc, scoped_tasks)

(***************************************************************************)
(* Operations on the graph                                                 *)
(***************************************************************************)
EdgeCount(g) ==
    LET RECURSIVE sum(_)
        sum(i) == IF i > Len(g.order) THEN 0 ELSE Len(g.adjacency[g.order[i]]) + sum(i + 1)
    IN sum(1)

Return(op, arg, value) == [op |-> op, arg |-> arg, value |-> value]

NoTask == [task_id |-> None]
NoUseCase == [tasks |-> <<>>]
NoNow == [day |-> 0, time |-> 0]
NotRun == [ran |-> FALSE]
\* the state after execute() raised: no LintResult, the exception goes to the caller
Raised(exception) == [ran |-> FALSE, raised |-> exception]
NoFiles == [relative |-> {}, absolute |-> {}]
\* a path at which no file exists
NoFile == [exists |-> FALSE]
\* no summary.json and no evidence file in the bundle directory
NoBundle == [summary |-> NoFile, evidence |-> {}]
\* no repository is looked at
NoCheckout == [commit_sha |-> <<>>]

\* the audit tools are not run: empty bundle, no attestation, no process
AuditIdle ==
    bundle = NoBundle /\ attestation = NoFile /\ spawned = <<>> /\ checkout = NoCheckout

GraphInit ==
    /\ graph = EmptyGraph
    /\ AuditIdle
    /\ ret = Return("init", <<>>, <<>>)
    /\ base = NoTask /\ patch = [kind |-> None] /\ updated = <<>>
    /\ usecase = NoUseCase /\ now = NoNow /\ lint_result = NotRun /\ files = NoFiles

\* dependency entries a new list for task_id may hold within the bound
Budget(g, task_id, bound) ==
    bound - (EdgeCount(g) - Len(get_dependencies(g, task_id)))

AddTaskFrom(ids, bound, sprint_values, flags) ==
    \E task_id \in ids :
        \E dependencies \in SeqsUpTo(TaskIds, Budget(graph, task_id, bound)) :
            \E sprint \in sprint_values, cross_sprint_allowed \in flags :
                /\ graph' = add_task(graph, task_id, dependencies, sprint, cross_sprint_allowed)
                /\ ret' = Return("add_task", <<>>, <<>>)
                /\ UNCHANGED <<ovars, lvars, avars>>

AddTask == AddTaskFrom(TaskIds, MaxEdges, {NoSprint}, {FALSE})

DetectCycles ==
    /\ graph' = graph
    /\ ret' = Return("detect_cycles", <<>>, detect_cycles(graph))
    /\ UNCHANGED <<ovars, lvars, avars>>

Next == AddTask \/ DetectCycles

Spec == GraphInit /\ [][Next]_vars

AddTaskTopo == AddTaskFrom(TaskIds, MaxTopoEdges, {NoSprint}, {FALSE})

\* consecutive calls of compute_fanout() on one graph
MaxCalls == 3

\* graph.compute_fanout(); ret.arg counts the consecutive calls
ComputeFanout ==
    LET calls == IF ret.op = "compute_fanout" THEN ret.arg + 1 ELSE 1
    IN /\ calls <= MaxCalls
       /\ graph' = graph
       /\ ret' = Return("compute_fanout", calls, compute_fanout(graph))
       /\ UNCHANGED <<ovars, lvars, avars>>

NextFanout == AddTaskTopo \/ ComputeFanout

SpecFanout == GraphInit /\ [][NextFanout]_vars

TopologicalSort ==
    /\ graph' = graph
    /\ ret' = Return("topological_sort", <<>>, topological_sort(graph))
    /\ UNCHANGED <<ovars, lvars, avars>>

NextTopo == AddTaskTopo \/ TopologicalSort

SpecTopo == GraphInit /\ [][NextTopo]_vars

AddTaskSprint == AddTaskFrom(SprintTaskIds, MaxSprintEdges, SprintValues, BOOLEAN)

DetectCrossSprintViolations ==
    \E scope_sprint \in SprintValues :
        /\ graph' = graph
        /\ ret' = Return("detect_cross_sprint_violations", scope_sprint,
                         detect_cross_sprint_violations(graph, scope_sprint))
        /\ UNCHANGED <<ovars, lvars, avars>>

NextSprint == AddTaskSprint \/ DetectCrossSprintViolations

SpecSprint == GraphInit /\ [][NextSprint]_vars

(***************************************************************************)
(* SpecOverride: one base task, one override, applied repeatedly           *)
(***************************************************************************)
\* two settings of the fields an override never writes
OtherFields ==
    {[section |-> "", description |-> "", owner |-> "", status |-> "Planned",
      acceptance_criteria |-> "", artifacts_expected |-> <<>>, adr_required |-> FALSE,
      risk |-> "Low", review_required |-> FALSE, waiver_policy |-> "none",
      cross_sprint_allowed |-> FALSE, cross_sprint_reason |-> "",
      definition_of_done |-> "", kpis |-> "", validation_method |-> ""],
     [section |-> "Core", description |-> "d", owner |-> "dev", status |-> "Completed",
      acceptance_criteria |-> "ac", artifacts_expected |-> <<"docs/a.md">>,
      adr_required |-> TRUE, risk |-> "High", review_required |-> TRUE,
      waiver_policy |-> "timeboxed", cross_sprint_allowed |-> TRUE,
      cross_sprint_reason |-> "r", definition_of_done |-> "dod", kpis |-> "k",
      validation_method |-> "vm"]}

\* two settings of the fields an override may write
OverridableFields ==
    {[sprint |-> NoSprint, tier |-> "C", gate_profile |-> "none",
      acceptance_owner |-> None, evidence_required |-> <<>>],
     [sprint |-> 1, tier |-> "B", gate_profile |-> "basic",
      acceptance_owner |-> "qa", evidence_required |-> <<"e1">>]}

MakeTask(task_id, dependencies, w, o) ==
    [task_id |-> task_id, section |-> o.section, description |-> o.description,
     owner |-> o.owner, dependencies |-> dependencies, sprint |-> w.sprint,
     status |-> o.status, tier |-> w.tier, gate_profile |-> w.gate_profile,
     acceptance_owner |-> w.acceptance_owner, evidence_required |-> w.evidence_required,
     acceptance_criteria |-> o.acceptance_criteria,
     artifacts_expected |-> o.artifacts_expected, adr_required |-> o.adr_required,
     risk |-> o.risk, review_required |-> o.review_required,
     waiver_policy |-> o.waiver_policy, cross_sprint_allowed |-> o.cross_sprint_allowed,
     cross_sprint_reason |-> o.cross_sprint_reason,
     definition_of_done |-> o.definition_of_done, kpis |-> o.kpis,
     validation_method |-> o.validation_method]

BaseTasks ==
    {MakeTask("A", deps, w, o) :
        deps \in SeqsUpTo(TaskIds, MaxBaseDeps), w \in OverridableFields, o \in OtherFields}

\* arguments of a direct with_override call
KwargsPatches ==
    [kind : {"kwargs"},
     tier : {None, "A"},
     gate_profile : {None, "strict"},
     acceptance_owner : {None, "", "lead"},
     evidence_required : {NoneSeq, <<>>, <<"e2">>},
     dependencies_add : {NoneSeq, <<"B">>, <<"C", "B">>},
     dependencies_remove : {NoneSeq, <<"B">>, <<"A", "B">>},
     sprint_override : {NoSprint, 0, 2}]

\* TaskOverride records as the YAML loader builds them
TaskOverridePatches ==
    {[kind |-> "TaskOverride",
      override |-> [TaskOverride("A") EXCEPT
          !.tier = tier, !.gate_profile = gate_profile,
          !.acceptance_owner = acceptance_owner, !.evidence_required = evidence_required,
          !.override_deps_add = deps_add, !.override_deps_remove = deps_remove,
          !.sprint_override = sprint_override]] :
        tier \in {NoneSeq, <<>>, <<" ", "a">>, <<"x">>},
        gate_profile \in {<<>>, <<<<"S", "t", "r", "i", "c", "t">>>>,
                          <<<<"l", "i", "n", "t">>, <<"s", "t", "r", "i", "c", "t">>>>},
        acceptance_owner \in {None, "", "lead"},
        evidence_required \in {<<>>, <<"e2">>},
        deps_add \in {<<>>, <<"C", "B">>},
        deps_remove \in {<<>>, <<"B">>, <<"A", "B">>},
        sprint_override \in {NoSprint, 0, 2}}

OverrideInit ==
    /\ graph = EmptyGraph
    /\ AuditIdle
    /\ ret = Return("init", <<>>, <<>>)
    /\ base \in BaseTasks
    /\ patch \in KwargsPatches \cup TaskOverridePatches
    /\ updated = <<>>
    /\ usecase = NoUseCase /\ now = NoNow /\ lint_result = NotRun /\ files = NoFiles

\* the task the next application starts from
Current == IF updated = <<>> THEN base ELSE updated[Len(updated)]

WithOverride ==
    /\ patch.kind = "kwargs"
    /\ Len(updated) < MaxApplications
    /\ updated' = Append(updated,
           with_override(Current, patch.tier, patch.gate_profile, patch.acceptance_owner,
                         patch.evidence_required, patch.dependencies_add,
                         patch.dependencies_remove, patch.sprint_override))
    /\ UNCHANGED <<base, patch, gvars, lvars, avars>>

ApplyOverride ==
    /\ patch.kind = "TaskOverride"
    /\ Len(updated) < MaxApplications
    /\ updated' = Append(updated, apply_override(Current, patch.override))
    /\ UNCHANGED <<base, patch, gvars, lvars, avars>>

NextOverride == WithOverride \/ ApplyOverride

SpecOverride == OverrideInit /\ [][NextOverride]_vars

(***************************************************************************)
(* The lint command: LintPlanUseCase.execute() and the exit of the process *)
(***************************************************************************)
\* Task(task_id, section, description, owner) with the defaults of the dataclass
Task(task_id) ==
    [task_id |-> task_id, section |-> "Core", description |-> "d", owner |-> "dev",
     dependencies |-> <<>>, sprint |-> NoSprint, status |-> "Planned", tier |-> "C",
     gate_profile |-> "none", acceptance_owner |-> None, evidence_required |-> <<>>,
     acceptance_criteria |-> "", artifacts_expected |-> <<>>, adr_required |-> FALSE,
     risk |-> "Low", review_required |-> FALSE, waiver_policy |-> "none",
     cross_sprint_allowed |-> FALSE, cross_sprint_reason |-> "",
     definition_of_done |-> "", kpis |-> "", validation_method |-> ""]

\* str.split(sep): the pieces between the separators, empty pieces included
RECURSIVE split(_, _)
split(v, sep) ==
    IF sep \notin Range(v) THEN <<v>>
    ELSE <<BeforeFirst(v, sep)>> \o split(SubSeq(v, Len(BeforeFirst(v, sep)) + 2, Len(v)), sep)

\* the task ids of the runs are one character long: the id is that character
IdOf(v) == IF Len(v) = 1 THEN v[1] ELSE ""

\* _row_to_task: the id and the dependencies of the row (the other cells are empty)
row_to_task(row) ==
    LET deps_str == IF row.clean_dependencies # <<>> THEN row.clean_dependencies
                    ELSE row.dependencies
        pieces == split(deps_str, ",")
        kept == SelectSeq(pieces, LAMBDA d : strip(d) # <<>>)
    IN [Task(IdOf(strip(row.task_id)))
            EXCEPT !.dependencies = [k \in 1..Len(kept) |-> IdOf(strip(kept[k]))]]

\* LintPlanUseCase(tasks, overrides, validation_rules, sprint_scope, fanout_threshold)
LintPlanUseCase(tasks, overrides, validation_rules, sprint_scope, fanout_threshold) ==
    [tasks |-> tasks, overrides |-> overrides, validation_rules |-> validation_rules,
     sprint_scope |-> sprint_scope, fanout_threshold |-> fanout_threshold,
     project_root |-> None]

DefaultFanoutThreshold == 3

\* overrides: the dictionary with no entry, or with the entry of task "A"
OverridesOf(entries) == {<<>>} \cup {("A" :> o) : o \in entries}

\* one sprint-1 task whose tier and Tier-A evidence vary
TierTasks ==
    {[Task("A") EXCEPT !.sprint = 1, !.tier = tier, !.gate_profile = gate_profile,
                       !.acceptance_owner = acceptance_owner,
                       !.evidence_required = evidence_required,
                       !.acceptance_criteria = acceptance_criteria] :
        tier \in {"A", "B"}, gate_profile \in {"none", "strict"},
        acceptance_owner \in {None, "qa"}, evidence_required \in {<<>>, <<"e1">>},
        acceptance_criteria \in {"", "ac"}}

TierOverrides ==
    {[TaskOverride("A") EXCEPT !.tier = tier, !.gate_profile = gate_profile,
                               !.acceptance_owner = acceptance_owner,
                               !.acceptance_criteria = acceptance_criteria,
                               !.evidence_required = evidence_required] :
        tier \in {NoneSeq, <<"a">>, <<"c">>},
        gate_profile \in {<<>>, <<<<"s", "t", "r", "i", "c", "t">>>>,
                          <<<<"n", "o", "n", "e">>>>},
        acceptance_owner \in {None, "", "lead"},
        acceptance_criteria \in {<<>>, <<"c1">>},
        evidence_required \in {<<>>, <<"e2">>}}

\* runs that vary the Tier-A evidence of one task and of its override
TierRuns ==
    {[usecase |-> LintPlanUseCase(<<task>>, overrides, {}, sprint_scope,
                                  DefaultFanoutThreshold),
      now |-> [day |-> 10, time |-> 0]] :
        task \in TierTasks, overrides \in OverridesOf(TierOverrides),
        sprint_scope \in {NoSprint, 1, 2}}

WaiverOverrides ==
    {[TaskOverride("A") EXCEPT !.waiver_expiry = waiver_expiry, !.debt_allowed = debt_allowed] :
        waiver_expiry \in {NoDate, BadDate, 9, 10, 11, 40, 41}, debt_allowed \in BOOLEAN}

\* runs that vary the waiver of task "A", the clock, the coverage and the fan-out
WaiverRuns ==
    {[usecase |-> LintPlanUseCase(tasks, overrides, validation_rules, NoSprint,
                                  fanout_threshold),
      now |-> [day |-> 10, time |-> time]] :
        tasks \in UNION {{<<[Task("A") EXCEPT !.tier = tier]>>,
                           <<[Task("A") EXCEPT !.tier = tier],
                             [Task("B") EXCEPT !.dependencies = <<"A">>]>>} :
                             tier \in {"B", "C"}},
        overrides \in OverridesOf(WaiverOverrides),
        validation_rules \in {{}, {"A", "B"}},
        fanout_threshold \in {1, DefaultFanoutThreshold},
        time \in {0, 1}}

\* artifact strings of the plan: paths under artifacts/misc, a path that exists in
\* FilesDocs, a sentence, a glob, and a blank entry
ArtifactStrings ==
    {<<"a", "r", "t", "i", "f", "a", "c", "t", "s", "/", "m", "i", "s", "c", "/", "v", "a",
     "l", "i", "d", "a", "t", "i", "o", "n", ".", "y", "a", "m", "l">>,
     <<"a", "r", "t", "i", "f", "a", "c", "t", "s", "/", "m", "i", "s", "c", "/", "p", "l",
     "a", "n", ".", "m", "d">>,
     <<"d", "o", "c", "s", "/", "p", "l", "a", "n", ".", "m", "d">>,
     <<"A", "l", "l", " ", "t", "e", "s", "t", "s", " ", "a", "r", "e", " ", "p", "a", "s",
     "s", "i", "n", "g">>,
     <<"a", "r", "t", "i", "f", "a", "c", "t", "s", "/", "r", "e", "p", "o", "r", "t", "s",
     "/", "*">>,
     <<" ">>}

\* the directories and files on the way to each path of a set of component lists
Closure(paths) == UNION {{SubSeq(path, 1, n) : n \in 1..Len(path)} : path \in paths}

FilesDocs ==
    [relative |-> Closure({<<<<"d", "o", "c", "s">>, <<"p", "l", "a", "n", ".", "m", "d">>>>,
                           <<<<"d", "o", "c", "s">>, <<"v", "a", "l", "i", "d", "a", "t", "i", "o", "n", ".", "y", "a", "m", "l">>>>}),
     absolute |-> {}]

FilesRoot ==
    [relative |-> Closure({<<<<"v", "a", "l", "i", "d", "a", "t", "i", "o", "n", ".", "y", "a", "m", "l">>>>,
                           <<<<"p", "l", "a", "n", ".", "m", "d">>>>,
                           <<<<"a", "r", "t", "i", "f", "a", "c", "t", "s">>, <<"r", "e", "p", "o", "r", "t", "s">>, <<"a", "u", "d", "i", "t", ".", "j", "s", "o", "n">>>>}),
     absolute |-> {}]

\* number of entries of the artifacts_expected tuple of a task
MaxArtifacts == 2

ArtifactTasks ==
    {[Task("A") EXCEPT !.status = status, !.artifacts_expected = artifacts_expected,
                       !.evidence_required = evidence_required] :
        status \in {"Planned", "Completed"},
        artifacts_expected \in SeqsUpTo(ArtifactStrings, MaxArtifacts),
        evidence_required \in {<<>>, <<<<"d", "o", "c", "s", "/", "p", "l", "a", "n", ".", "m", "d">>>>}}

ArtifactOverrides ==
    {[TaskOverride("A") EXCEPT !.evidence_required = evidence_required] :
        evidence_required \in {<<<<"a", "r", "t", "i", "f", "a", "c", "t", "s", "/", "m", "i",
                               "s", "c", "/", "v", "a", "l", "i", "d", "a", "t", "i", "o",
                               "n", ".", "y", "a", "m", "l">>>>,
                               <<<<"a", "r", "t", "i", "f", "a", "c", "t", "s", "/", "m", "i",
                               "s", "c", "/", "p", "l", "a", "n", ".", "m", "d">>>>}}

\* runs with a project root: the artifacts of one task against the files that exist
ArtifactRuns ==
    {[usecase |-> [LintPlanUseCase(<<task>>, overrides, validation_rules, NoSprint,
                                   DefaultFanoutThreshold) EXCEPT !.project_root = "/repo"],
      now |-> [day |-> 10, time |-> 0],
      files |-> fs] :
        task \in ArtifactTasks, overrides \in OverridesOf(ArtifactOverrides),
        validation_rules \in {{}, {"A"}},
        fs \in {FilesDocs, FilesRoot}}

\* runs on three tasks that vary tiers, errors, coverage and fan-out
QueueRuns ==
    {[usecase |-> LintPlanUseCase(<<[Task("A") EXCEPT !.tier = t1, !.dependencies = d1],
                                    [Task("B") EXCEPT !.tier = t2, !.dependencies = d2],
                                    [Task("C") EXCEPT !.tier = t3, !.dependencies = d3]>>,
                                  <<>>, validation_rules, NoSprint, fanout_threshold),
      now |-> [day |-> 10, time |-> 0]] :
        t1 \in {"A", "C"}, t2 \in {"A", "C"}, t3 \in {"A", "C"},
        d1 \in {<<>>, <<"A">>}, d2 \in {<<>>, <<"A">>}, d3 \in {<<>>, <<"C">>},
        validation_rules \in {{}, {"A", "B", "C"}},
        fanout_threshold \in {2, DefaultFanoutThreshold}}

LintInit ==
    /\ graph = EmptyGraph
    /\ AuditIdle
    /\ ret = Return("init", <<>>, <<>>)
    /\ base = NoTask /\ patch = [kind |-> None] /\ updated = <<>>
    /\ \E run \in TierRuns \cup WaiverRuns \cup QueueRuns :
           usecase = run.usecase /\ now = run.now
    /\ lint_result = NotRun
    /\ files = NoFiles

LintArtifactInit ==
    /\ graph = EmptyGraph
    /\ AuditIdle
    /\ ret = Return("init", <<>>, <<>>)
    /\ base = NoTask /\ patch = [kind |-> None] /\ updated = <<>>
    /\ \E run \in ArtifactRuns :
           usecase = run.usecase /\ now = run.now /\ files = run.files
    /\ lint_result = NotRun

\* the lint command: execute(), then sys.exit(1) if result.has_errors() else sys.exit(0)
Execute ==
    /\ lint_result = NotRun
    /\ \E task_order \in SetOrders(get_scoped_tasks(usecase, apply_overrides(usecase))) :
           lint_result' = IF execute_raises(usecase) THEN Raised("OSError")
                          ELSE Let(execute(usecase, now, task_order, files), LAMBDA result :
                                   result @@ [exit_code |-> exit_code(result.errors)])
    /\ graph' = from_tasks(apply_overrides(usecase))
    /\ UNCHANGED <<ret, ovars, usecase, now, files, avars>>

NextLint == Execute

SpecLint == LintInit /\ [][NextLint]_vars

SpecLintArtifact == LintArtifactInit /\ [][NextLint]_vars

\* runs on two tasks that vary dependencies, sprints, flags, and an override of "A"
SprintRunTasks(ids) ==
    {<<[Task(ids[1]) EXCEPT !.dependencies = d1, !.sprint = s1, !.cross_sprint_allowed = a1],
       [Task(ids[2]) EXCEPT !.dependencies = d2, !.sprint = s2, !.cross_sprint_allowed = a2]>> :
        d1 \in SeqsUpTo(TaskIds, MaxLintDeps), d2 \in SeqsUpTo(TaskIds, MaxLintDeps),
        s1 \in SprintValues, s2 \in SprintValues, a1 \in BOOLEAN, a2 \in BOOLEAN}

SprintOverrides ==
    {[TaskOverride("A") EXCEPT !.sprint_override = 1],
     [TaskOverride("A") EXCEPT !.override_deps_add = <<"B">>]}

SprintRuns ==
    {LintPlanUseCase(tasks, overrides, {}, sprint_scope, DefaultFanoutThreshold) :
        tasks \in SprintRunTasks(<<"A", "B">>) \cup SprintRunTasks(<<"A", "A">>),
        overrides \in OverridesOf(SprintOverrides),
        sprint_scope \in {NoSprint, 0}}

LintSprintInit ==
    /\ graph = EmptyGraph
    /\ AuditIdle
    /\ ret = Return("init", <<>>, <<>>)
    /\ base = NoTask /\ patch = [kind |-> None] /\ updated = <<>>
    /\ usecase \in SprintRuns
    /\ now = [day |-> 10, time |-> 0]
    /\ lint_result = NotRun
    /\ files = NoFiles

\* graph.detect_cross_sprint_violations(self.sprint_scope) on the graph of the run
ScopedCrossSprintViolations ==
    /\ lint_result.ran
    /\ ret.op = "init"
    /\ ret' = Return("detect_cross_sprint_violations", usecase.sprint_scope,
                     detect_cross_sprint_violations(graph, usecase.sprint_scope))
    /\ UNCHANGED <<graph, ovars, lvars, avars>>

NextLintSprint == Execute \/ ScopedCrossSprintViolations

SpecLintSprint == LintSprintInit /\ [][NextLintSprint]_vars

\* a relative path whose file name is one character longer than NameMax
LongName == <<"d", "o", "c", "s", "/">> \o [i \in 1..(NameMax + 1) |-> "a"]

NameStrings ==
    {LongName,
     <<"d", "o", "c", "s", "/", "p", "l", "a", "n", ".", "m", "d">>,
     <<"a", "r", "t", "i", "f", "a", "c", "t", "s", "/", "m", "i", "s", "c", "/", "p", "l",
       "a", "n", ".", "m", "d">>}

\* runs with a project root on two tasks: the artifact of "A" may carry a long name,
\* and the tasks may form a cycle, name an unknown task, share an id, or lack a sprint
NameRuns ==
    {[usecase |-> [LintPlanUseCase(<<[Task("A") EXCEPT !.status = status,
                                                       !.artifacts_expected = <<artifact>>,
                                                       !.dependencies = d1,
                                                       !.tier = tier,
                                                       !.sprint = sprint],
                                     [Task(second) EXCEPT !.dependencies = d2,
                                                          !.sprint = 0]>>,
                                   <<>>, {}, sprint_scope, DefaultFanoutThreshold)
                       EXCEPT !.project_root = "/repo"],
      now |-> [day |-> 10, time |-> 0],
      files |-> FilesDocs] :
        status \in {"Planned", "Completed"}, artifact \in NameStrings,
        d1 \in {<<>>, <<"B">>, <<"C">>}, d2 \in {<<>>, <<"A">>},
        tier \in {"A", "C"}, sprint \in {NoSprint, 0, 1}, second \in {"A", "B"},
        sprint_scope \in {NoSprint, 0}}

LintNameInit ==
    /\ graph = EmptyGraph
    /\ AuditIdle
    /\ ret = Return("init", <<>>, <<>>)
    /\ base = NoTask /\ patch = [kind |-> None] /\ updated = <<>>
    /\ \E run \in NameRuns :
           usecase = run.usecase /\ now = run.now /\ files = run.files
    /\ lint_result = NotRun

SpecLintName == LintNameInit /\ [][NextLint]_vars

\* the cells of the Dependencies column of the runs loaded from rows
DependencyCells ==
    {<<>>,
     <<"A">>,
     <<"A", ",", "A">>,
     <<"A", ",", " ", "A">>,
     <<"A", ",", ",", "C">>,
     <<" ", "C", " ", ",", "A", ",", "C">>}

\* a row of the plan CSV: the cells "Task ID", "CleanDependencies" and "Dependencies"
Row(task_id, clean_dependencies, dependencies) ==
    [task_id |-> task_id, clean_dependencies |-> clean_dependencies,
     dependencies |-> dependencies]

\* runs on the tasks of three rows, with and without an override of "B"
CsvRuns ==
    {LintPlanUseCase(<<row_to_task(Row(<<"A">>, <<>>, d1)),
                       row_to_task(Row(<<" ", "B">>, clean, d2)),
                       row_to_task(Row(<<"C">>, <<>>, d3))>>,
                     overrides, {}, NoSprint, DefaultFanoutThreshold) :
        d1 \in {<<>>, <<"B">>}, d2 \in DependencyCells, d3 \in {<<>>, <<"A">>, <<"A", ",", "A">>},
        clean \in {<<>>, <<"C">>},
        overrides \in {<<>>,
                       "B" :> [TaskOverride("B") EXCEPT !.override_deps_add = <<"A">>]}}

LintCsvInit ==
    /\ graph = EmptyGraph
    /\ AuditIdle
    /\ ret = Return("init", <<>>, <<>>)
    /\ base = NoTask /\ patch = [kind |-> None] /\ updated = <<>>
    /\ usecase \in CsvRuns
    /\ now = [day |-> 10, time |-> 0]
    /\ lint_result = NotRun
    /\ files = NoFiles

\* graph.compute_fanout() on the graph of the run
ComputeFanoutOfRun ==
    /\ lint_result.ran
    /\ ret.op = "init"
    /\ ret' = Return("compute_fanout", 1, compute_fanout(graph))
    /\ UNCHANGED <<graph, ovars, lvars, avars>>

NextLintCsv == Execute \/ ComputeFanoutOfRun

SpecLintCsv == LintCsvInit /\ [][NextLintCsv]_vars

\* runs on three tasks whose dependency tuples repeat entries and close cycles
CycleDeps ==
    {<<>>, <<"A">>, <<"B">>, <<"A", "A">>, <<"B", "B">>, <<"A", "B">>, <<"B", "A">>}

CycleRuns ==
    {LintPlanUseCase(<<[Task("A") EXCEPT !.dependencies = d1, !.sprint = s1],
                       [Task("B") EXCEPT !.dependencies = d2, !.sprint = s2],
                       [Task("C") EXCEPT !.dependencies = d3, !.sprint = s3]>>,
                     <<>>, {}, sprint_scope, DefaultFanoutThreshold) :
        d1 \in CycleDeps, d2 \in CycleDeps, d3 \in CycleDeps,
        s1 \in {NoSprint, 0}, s2 \in {NoSprint, 0}, s3 \in {NoSprint, 0},
        sprint_scope \in {NoSprint, 0, 1}}

LintCyclesInit ==
    /\ graph = EmptyGraph
    /\ AuditIdle
    /\ ret = Return("init", <<>>, <<>>)
    /\ base = NoTask /\ patch = [kind |-> None] /\ updated = <<>>
    /\ usecase \in CycleRuns
    /\ now = [day |-> 10, time |-> 0]
    /\ lint_result = NotRun
    /\ files = NoFiles

\* graph.detect_cycles() on the graph of the run
DetectCyclesOfRun ==
    /\ lint_result.ran
    /\ ret.op = "init"
    /\ ret' = Return("detect_cycles", <<>>, detect_cycles(graph))
    /\ UNCHANGED <<graph, ovars, lvars, avars>>

NextLintCycles == Execute \/ DetectCyclesOfRun

SpecLintCycles == LintCyclesInit /\ [][NextLintCycles]_vars

\* graph.find_unresolved_dependencies() on the graph of the run
FindUnresolvedDependenciesOfRun ==
    /\ lint_result.ran
    /\ ret.op = "init"
    /\ ret' = Return("find_unresolved_dependencies", <<>>,
                     find_unresolved_dependencies(graph))
    /\ UNCHANGED <<graph, ovars, lvars, avars>>

NextLintUnresolved == Execute \/ FindUnresolvedDependenciesOfRun

SpecLintUnresolved == LintSprintInit /\ [][NextLintUnresolved]_vars

(***************************************************************************)
(* Graph facts the claims are stated against, defined without the DFS      *)
(***************************************************************************)
\* direct dependencies of n that are known nodes
KnownDeps(g, n) == Range(g.adjacency[n]) \cap Known(g)

RECURSIVE ReachableFrom(_, _)
ReachableFrom(g, S) ==
    LET more == S \cup UNION {KnownDeps(g, n) : n \in S}
    IN IF more = S THEN S ELSE ReachableFrom(g, more)

OnCycle(g, n) == n \in ReachableFrom(g, KnownDeps(g, n))

Acyclic(g) == \A n \in Known(g) : ~OnCycle(g, n)

Distinct(p) == \A i, j \in 1..Len(p) : i # j => p[i] # p[j]

\* p lists the nodes of a simple cycle: each depends on the next, the last on the first
IsSimpleCycle(g, p) ==
    /\ Len(p) >= 1
    /\ Distinct(p)
    /\ \A i \in 1..Len(p) :
          p[IF i = Len(p) THEN 1 ELSE i + 1] \in KnownDeps(g, p[i])

SimpleCycleSets(g) ==
    {Range(p) : p \in {q \in SeqsUpTo(Known(g), Cardinality(Known(g))) : IsSimpleCycle(g, q)}}

NodeSet(cycle) == Range(SubSeq(cycle, 1, Len(cycle) - 1))

HasUnknownEdge(g) == \E n \in Known(g) : Range(g.adjacency[n]) \ Known(g) # {}

Before(order, a, b) ==
    \E i, j \in 1..Len(order) : i < j /\ order[i] = a /\ order[j] = b

(***************************************************************************)
(* Claims                                                                  *)
(***************************************************************************)
\* C1: detect_cycles() returns the empty list exactly when the graph restricted
\* to edges between known nodes is acyclic, and a reported cycle holds known
\* nodes only (an edge to an unknown node is never part of one).
C1_CyclesEmptyIffDag ==
    ret.op = "detect_cycles" =>
        /\ (ret.value = <<>>) <=> Acyclic(graph)
        /\ \A i \in 1..Len(ret.value) : Range(ret.value[i]) \subseteq Known(graph)

C1_Witness ==
    /\ ret.op = "detect_cycles"
    /\ ret.value # <<>>
    /\ HasUnknownEdge(graph)

\* C2: detect_cycles() reports every simple cycle of the graph: for each simple
\* cycle over known nodes some returned cycle has the same node set.
C2_EverySimpleCycleReported ==
    ret.op = "detect_cycles" =>
        \A S \in SimpleCycleSets(graph) :
            \E i \in 1..Len(ret.value) : NodeSet(ret.value[i]) = S

\* C3: topological_sort() returns normally exactly when detect_cycles() is
\* empty; otherwise it raises CycleError carrying the first cycle of
\* detect_cycles() and returns no order at all.
C3_TopoSortRaisesIffCycle ==
    ret.op = "topological_sort" =>
        LET cycles == detect_cycles(graph)
        IN /\ (ret.value.raised = "") <=> (cycles = <<>>)
           /\ (ret.value.raised = "") <=> Acyclic(graph)
           /\ ret.value.raised # "" =>
                /\ ret.value.raised = "CycleError"
                /\ ret.value.cycle = cycles[1]
                /\ "result" \notin DOMAIN ret.value

C3_Witness ==
    /\ ret.op = "topological_sort"
    /\ ret.value.raised = "CycleError"
    /\ Len(detect_cycles(graph)) >= 2

\* C4: on an acyclic graph topological_sort() returns every known task id
\* exactly once, each known dependency before the task that depends on it;
\* unknown targets and repeated ids in a dependency list change nothing.
C4_TopoOrder ==
    (ret.op = "topological_sort" /\ Acyclic(graph)) =>
        /\ ret.value.raised = ""
        /\ Len(ret.value.result) = Cardinality(Known(graph))
        /\ Range(ret.value.result) = Known(graph)
        /\ \A n \in Known(graph) : \A d \in KnownDeps(graph, n) :
              Before(ret.value.result, d, n)

C4_Witness ==
    /\ ret.op = "topological_sort"
    /\ ret.value.raised = ""
    /\ \E n \in Known(graph) :
          /\ Range(graph.adjacency[n]) \ Known(graph) # {}
          /\ KnownDeps(graph, n) # {}
          /\ ~Distinct(graph.adjacency[n])

\* C5: detect_cross_sprint_violations(scope) returns a violation for an edge
\* task(sprint N) -> dep(sprint M) exactly when both sprints are defined, M > N
\* and the scope is None or equals N; tasks without a sprint are on neither
\* side, and a dependency outside the scope is still inspected.
C5_ViolationIff ==
    ret.op = "detect_cross_sprint_violations" =>
        LET Reported(t, d) ==
                \E k \in 1..Len(ret.value) :
                    ret.value[k].task_id = t /\ ret.value[k].dependency_id = d
        IN /\ \A t \in Known(graph) : \A d \in Range(graph.adjacency[t]) :
                Reported(t, d) <=>
                    /\ graph.sprints[t] # NoSprint
                    /\ d \in Known(graph)
                    /\ graph.sprints[d] # NoSprint
                    /\ graph.sprints[d] > graph.sprints[t]
                    /\ (ret.arg = NoSprint \/ graph.sprints[t] = ret.arg)
           /\ \A k \in 1..Len(ret.value) :
                LET v == ret.value[k]
                IN /\ v.task_id \in Known(graph)
                   /\ v.dependency_id \in Range(graph.adjacency[v.task_id])
                   /\ v.task_sprint = graph.sprints[v.task_id]
                   /\ v.dependency_sprint = graph.sprints[v.dependency_id]
                   /\ v.task_sprint # NoSprint /\ v.dependency_sprint # NoSprint

\* a scoped call that reports an edge whose target lies outside the scope
C5_Witness ==
    /\ ret.op = "detect_cross_sprint_violations"
    /\ ret.arg # NoSprint
    /\ ret.value # <<>>
    /\ \E k \in 1..Len(ret.value) : ret.value[k].dependency_sprint # ret.arg

\* the ids of an Optional tuple argument (None: no ids)
Ids(t) == IF t = NoneSeq THEN {} ELSE Range(t)

\* C9: applying an override is idempotent: a second application of the same
\* override to the result of the first returns a task equal to that result
\* (with_override called directly or through _apply_override).
C9_OverrideIdempotent ==
    \A i \in 2..Len(updated) : updated[i] = updated[1]

C9_Witness ==
    /\ Len(updated) = 2
    /\ updated[1] # base
    /\ updated[1].dependencies # base.dependencies
    /\ updated[1].tier # base.tier
    /\ updated[1].sprint # base.sprint
    /\ patch.kind = "TaskOverride"
    /\ Range(patch.override.override_deps_add) \cap Range(patch.override.override_deps_remove) # {}

\* C10: every with_override call leaves the task it is called on unchanged and
\* returns a task whose dependency set is (dependencies minus dependencies_remove)
\* union dependencies_add, whose tier, gate profile, acceptance owner, evidence
\* and sprint are the override's value when it is not None and the task's
\* otherwise, and whose other fields all equal the task's.
C10_Frame(self, new) ==
    /\ Range(new.dependencies) =
          (Range(self.dependencies) \ Ids(patch.dependencies_remove))
              \cup Ids(patch.dependencies_add)
    /\ new.tier = (IF patch.tier # None THEN patch.tier ELSE self.tier)
    /\ new.gate_profile =
          (IF patch.gate_profile # None THEN patch.gate_profile ELSE self.gate_profile)
    /\ new.acceptance_owner =
          (IF patch.acceptance_owner # None THEN patch.acceptance_owner
           ELSE self.acceptance_owner)
    /\ new.evidence_required =
          (IF patch.evidence_required # NoneSeq THEN patch.evidence_required
           ELSE self.evidence_required)
    /\ new.sprint =
          (IF patch.sprint_override # NoSprint THEN patch.sprint_override ELSE self.sprint)
    /\ DOMAIN new = DOMAIN self
    /\ \A f \in DOMAIN self \ {"dependencies", "tier", "gate_profile", "acceptance_owner",
                               "evidence_required", "sprint"} : new[f] = self[f]

C10_WithOverrideFrame ==
    [][(patch.kind = "kwargs" /\ updated' # updated) =>
          /\ base' = base
          /\ SubSeq(updated', 1, Len(updated)) = updated
          /\ C10_Frame(Current, updated'[Len(updated')])]_vars

\* an id named by both lists ends up a dependency of the new task
C10_Witness ==
    /\ patch.kind = "kwargs"
    /\ Len(updated) >= 1
    /\ Ids(patch.dependencies_add) \cap Ids(patch.dependencies_remove) # {}
    /\ Ids(patch.dependencies_add) \cap Ids(patch.dependencies_remove)
          \subseteq Range(updated[1].dependencies)
    /\ patch.tier = None /\ patch.acceptance_owner = ""
    /\ base.acceptance_owner = "qa" /\ base.cross_sprint_allowed

(***************************************************************************)
(* Facts about a lint run, read off the result                             *)
(***************************************************************************)
\* the tasks after overrides, and those of them in the sprint scope
Overridden == apply_overrides(usecase)
Scoped == get_scoped_tasks(usecase, Overridden)

\* every ValidationResult the run produced, in either list
Produced == Range(lint_result.errors) \cup Range(lint_result.warnings)

\* how many results of rule_id in the error list name exactly task_id
ErrorCount(rule_id, task_id) ==
    Cardinality({k \in 1..Len(lint_result.errors) :
                    /\ lint_result.errors[k].rule_id = rule_id
                    /\ lint_result.errors[k].tasks = <<task_id>>})

\* the edges of the graph that point from a sprint in scope to a later sprint
LaterSprintEdges ==
    {e \in Known(graph) \X TaskIds :
        /\ e[2] \in Range(graph.adjacency[e[1]])
        /\ graph.sprints[e[1]] # NoSprint
        /\ usecase.sprint_scope \in {NoSprint, graph.sprints[e[1]]}
        /\ e[2] \in Known(graph)
        /\ graph.sprints[e[2]] # NoSprint
        /\ graph.sprints[e[2]] > graph.sprints[e[1]]}

\* C6: every violation the graph returns carries the cross_sprint_allowed flag of its
\* source task (never the one of the dependency), a later-sprint edge is returned
\* whether allowed or not, and the lint run reports a NO_CROSS_SPRINT_UNRESOLVED error
\* naming (source, dependency) exactly for the violations that are not allowed
C6_AllowedFlagDecidesError ==
    (lint_result.ran /\ ret.op = "detect_cross_sprint_violations") =>
        /\ \A k \in 1..Len(ret.value) :
               ret.value[k].is_allowed = graph.cross_sprint_allowed[ret.value[k].task_id]
        /\ {<<ret.value[k].task_id, ret.value[k].dependency_id>> : k \in 1..Len(ret.value)}
               = LaterSprintEdges
        /\ \A e \in Known(graph) \X TaskIds :
               (\E r \in Range(lint_result.errors) :
                    r.rule_id = "NO_CROSS_SPRINT_UNRESOLVED" /\ r.tasks = e)
               <=> (\E k \in 1..Len(ret.value) :
                        /\ ret.value[k].task_id = e[1]
                        /\ ret.value[k].dependency_id = e[2]
                        /\ ~ret.value[k].is_allowed)

\* an allowed violation is returned, its dependency's own flag is off, and the run
\* reports no cross-sprint error
C6_Witness ==
    /\ lint_result.ran /\ ret.op = "detect_cross_sprint_violations"
    /\ \E k \in 1..Len(ret.value) :
           /\ ret.value[k].is_allowed
           /\ ~graph.cross_sprint_allowed[ret.value[k].dependency_id]
    /\ \A r \in Range(lint_result.errors) : r.rule_id # "NO_CROSS_SPRINT_UNRESOLVED"

\* C7: the run exits with code 1 exactly when it produced at least one result of
\* severity error, whichever rule produced it; warnings and infos never fail it
C7_ExitOneIffErrorProduced ==
    lint_result.ran =>
        (lint_result.exit_code = 1 <=> \E r \in Produced : r.severity = "error")

\* what a scoped task lacks, on the task itself and in its override
MissingGates(task) ==
    /\ task.gate_profile = "none"
    /\ (HasOverride(usecase, task.task_id) /\ usecase.overrides[task.task_id].gate_profile # <<>>)
           => GateProfile_from_string(usecase.overrides[task.task_id].gate_profile[1]) = "none"

MissingOwner(task) ==
    /\ task.acceptance_owner \in {None, ""}
    /\ HasOverride(usecase, task.task_id)
           => usecase.overrides[task.task_id].acceptance_owner \in {None, ""}

MissingEvidence(task) ==
    /\ task.evidence_required = <<>>
    /\ HasOverride(usecase, task.task_id)
           => usecase.overrides[task.task_id].evidence_required = <<>>

MissingAcceptance(task) ==
    /\ task.acceptance_criteria = ""
    /\ HasOverride(usecase, task.task_id)
           => usecase.overrides[task.task_id].acceptance_criteria = <<>>

TierARules ==
    {"TIER_A_GATES_REQUIRED", "TIER_A_OWNER_REQUIRED", "TIER_A_EVIDENCE_REQUIRED",
     "TIER_A_ACCEPTANCE_REQUIRED"}

Expected(cond) == IF cond THEN 1 ELSE 0

\* C8: for every scoped Tier-A task each of the four Tier-A errors is emitted exactly
\* when the task lacks the corresponding evidence, on the task and in its override,
\* and at most once; scoped tasks of tier B or C get none of them
C8_TierAErrorsExact ==
    lint_result.ran =>
        \A i \in 1..Len(Scoped) :
            IF Scoped[i].tier = "A"
            THEN /\ ErrorCount("TIER_A_GATES_REQUIRED", Scoped[i].task_id)
                        = Expected(MissingGates(Scoped[i]))
                 /\ ErrorCount("TIER_A_OWNER_REQUIRED", Scoped[i].task_id)
                        = Expected(MissingOwner(Scoped[i]))
                 /\ ErrorCount("TIER_A_EVIDENCE_REQUIRED", Scoped[i].task_id)
                        = Expected(MissingEvidence(Scoped[i]))
                 /\ ErrorCount("TIER_A_ACCEPTANCE_REQUIRED", Scoped[i].task_id)
                        = Expected(MissingAcceptance(Scoped[i]))
            ELSE \A rule_id \in TierARules : ErrorCount(rule_id, Scoped[i].task_id) = 0

(***************************************************************************)
(* Facts about the review queue                                            *)
(***************************************************************************)
Enqueued(task_id) ==
    \E k \in 1..Len(lint_result.review_queue) : lint_result.review_queue[k].task_id = task_id

\* the dependency entries of the graph of the run that name task_id
DependentEntries(task_id) ==
    UNION {{<<n, j>> : j \in {j \in DOMAIN graph.adjacency[n] :
                                graph.adjacency[n][j] = task_id}} : n \in Known(graph)}

NamedByError(task_id) ==
    \E r \in Range(lint_result.errors) : task_id \in Range(r.tasks)

\* the five reasons for review of the specification, for a task after overrides
NeedsReview(task) ==
    \/ task.tier = "A"
    \/ Cardinality(DependentEntries(task.task_id)) >= usecase.fanout_threshold
    \/ NamedByError(task.task_id)
    \/ /\ HasOverride(usecase, task.task_id)
       /\ \/ usecase.overrides[task.task_id].debt_allowed
          \/ usecase.overrides[task.task_id].waiver_expiry # NoDate
    \/ \E w \in Range(lint_result.warnings) :
           w.rule_id = "MISSING_VALIDATION" /\ task.task_id \in Range(w.tasks)

\* C11: a task id is in the review queue exactly when a scoped task with that id is
\* Tier A, has a fan-out of at least the threshold, is named by a result of the error
\* list, has an override with a waiver expiry or debt_allowed, or got a
\* missing-validation-coverage warning; no other task is ever enqueued
C11_EnqueuedIffReason ==
    lint_result.ran =>
        \A task_id \in TaskIds :
            Enqueued(task_id) <=> \E i \in 1..Len(Scoped) :
                                      Scoped[i].task_id = task_id /\ NeedsReview(Scoped[i])

\* rank of a priority in the order critical, high, medium, low
Rank(priority) ==
    CASE priority = "critical" -> 0
      [] priority = "high" -> 1
      [] priority = "medium" -> 2
      [] priority = "low" -> 3

\* the ways of reading the queue entries as distinct scoped tasks
QueuePositions ==
    {pos \in [1..Len(lint_result.review_queue) -> 1..Len(Scoped)] :
        /\ \A k, l \in DOMAIN pos : k # l => pos[k] # pos[l]
        /\ \A k \in DOMAIN pos :
               /\ Scoped[pos[k]].task_id = lint_result.review_queue[k].task_id
               /\ Scoped[pos[k]].tier = lint_result.review_queue[k].tier}

\* C12: every review queue entry is critical for a Tier-A task, else high when an
\* error names the task, else medium; no entry precedes one of strictly higher
\* priority, and entries of equal priority keep the order of the scoped task list
C12_QueuePriorityOrder ==
    lint_result.ran =>
        LET queue == lint_result.review_queue
        IN /\ \A k \in 1..Len(queue) :
                  queue[k].priority = IF queue[k].tier = "A" THEN "critical"
                                      ELSE IF NamedByError(queue[k].task_id) THEN "high"
                                      ELSE "medium"
           /\ \A k, l \in 1..Len(queue) :
                  k < l => Rank(queue[k].priority) <= Rank(queue[l].priority)
           /\ \E pos \in QueuePositions :
                  \A k, l \in 1..Len(queue) :
                      (k < l /\ queue[k].priority = queue[l].priority) => pos[k] < pos[l]

\* three entries: the last scoped task first (critical), then two of equal priority
C12_Witness ==
    /\ lint_result.ran
    /\ Len(Scoped) = 3
    /\ Len(lint_result.review_queue) = 3
    /\ lint_result.review_queue[1].task_id = Scoped[3].task_id
    /\ lint_result.review_queue[1].priority = "critical"
    /\ lint_result.review_queue[2].priority = lint_result.review_queue[3].priority
    /\ lint_result.review_queue[2].task_id = Scoped[1].task_id

\* C13: every cycle detect_cycles() returns is a closed path of the graph: at least
\* two elements, the first equal to the last, the elements before the closing one
\* pairwise distinct known nodes, each element depending directly on the next; a
\* task that depends on itself is reported as [X, X]
C13_CyclesAreClosedPaths ==
    ret.op = "detect_cycles" =>
        /\ \A i \in 1..Len(ret.value) :
               LET cycle == ret.value[i]
               IN /\ Len(cycle) >= 2
                  /\ cycle[1] = cycle[Len(cycle)]
                  /\ Distinct(SubSeq(cycle, 1, Len(cycle) - 1))
                  /\ Range(cycle) \subseteq Known(graph)
                  /\ \A j \in 1..(Len(cycle) - 1) :
                         cycle[j + 1] \in Range(graph.adjacency[cycle[j]])
        /\ \A n \in Known(graph) :
               n \in Range(graph.adjacency[n]) => <<n, n>> \in Range(ret.value)

\* a self-dependent task reached through another task, and a longer cycle
C13_Witness ==
    /\ ret.op = "detect_cycles"
    /\ \E n \in Known(graph) :
           /\ <<n, n>> \in Range(ret.value)
           /\ graph.order[1] # n
           /\ n \in Range(graph.adjacency[graph.order[1]])
    /\ \E i \in 1..Len(ret.value) : Len(ret.value[i]) >= 3

\* two known tasks that depend on each other
Mutual(a, b) ==
    /\ a # b /\ a \in Known(graph) /\ b \in Known(graph)
    /\ b \in Range(graph.adjacency[a]) /\ a \in Range(graph.adjacency[b])

CyclesOn(nodes) == {i \in 1..Len(ret.value) : NodeSet(ret.value[i]) = nodes}

CycleErrorsOn(nodes) ==
    {k \in 1..Len(lint_result.errors) :
        /\ lint_result.errors[k].rule_id = "NO_CYCLES"
        /\ Range(lint_result.errors[k].tasks) = nodes}

SumOfValues(mapping) ==
    Cardinality(UNION {{<<key, k>> : k \in 1..mapping[key]} : key \in DOMAIN mapping})

\* the dependency entries of the graph whose target is a known node
EdgesToKnown ==
    UNION {{<<n, k>> : k \in {j \in DOMAIN graph.adjacency[n] :
                                 graph.adjacency[n][j] \in Known(graph)}} :
           n \in Known(graph)}

\* C15: compute_fanout() returns a mapping whose keys are exactly the known task ids
\* and whose values sum to the number of edges into known nodes; a repeated call
\* returns the same mapping, and no call changes the graph
C15_FanoutIdempotentReadOnly ==
    /\ [](ret.op = "compute_fanout" =>
              /\ DOMAIN ret.value = Known(graph)
              /\ SumOfValues(ret.value) = Cardinality(EdgesToKnown))
    /\ [][ret'.op = "compute_fanout" =>
              /\ graph' = graph
              /\ ret.op = "compute_fanout" => ret'.value = ret.value]_vars

\* a third call on a graph with an edge to a known node and one to an unknown node
C15_Witness ==
    /\ ret.op = "compute_fanout" /\ ret.arg = 3
    /\ Cardinality(EdgesToKnown) >= 2
    /\ \E n \in Known(graph) : Range(graph.adjacency[n]) \ Known(graph) # {}
    /\ \E n \in Known(graph) : ret.value[n] = 0

HighFanoutWarnings(task_id) ==
    {k \in 1..Len(lint_result.warnings) :
        /\ lint_result.warnings[k].rule_id = "HIGH_FANOUT"
        /\ lint_result.warnings[k].tasks = <<task_id>>}

\* C16: a scoped task has a HIGH_FANOUT result, of severity info, exactly when the
\* number of dependency entries naming it in the whole graph is at least the
\* threshold; the result is in the warning list and never in the error list
C16_HighFanoutIffAtThreshold ==
    lint_result.ran =>
        /\ \A i \in 1..Len(Scoped) :
               LET task_id == Scoped[i].task_id
               IN /\ HighFanoutWarnings(task_id) # {}
                      <=> Cardinality(DependentEntries(task_id)) >= usecase.fanout_threshold
                  /\ \A k \in HighFanoutWarnings(task_id) :
                         lint_result.warnings[k].severity = "info"
        /\ \A r \in Range(lint_result.errors) : r.rule_id # "HIGH_FANOUT"

\* a scoped task at the threshold through a dependent outside the scope, next to a
\* scoped task one entry below the threshold
C16_Witness ==
    /\ lint_result.ran
    /\ usecase.sprint_scope # NoSprint
    /\ \E i \in 1..Len(Scoped) :
           LET task_id == Scoped[i].task_id
           IN /\ HighFanoutWarnings(task_id) # {}
              /\ Cardinality(DependentEntries(task_id)) = usecase.fanout_threshold
              /\ \E n \in Known(graph) :
                     /\ task_id \in Range(graph.adjacency[n])
                     /\ \A j \in 1..Len(Scoped) : Scoped[j].task_id # n
    /\ \E i \in 1..Len(Scoped) :
           /\ HighFanoutWarnings(Scoped[i].task_id) = {}
           /\ Cardinality(DependentEntries(Scoped[i].task_id)) = usecase.fanout_threshold - 1

\* the dependency entries of the graph whose target is not a known node
EdgesToUnknown ==
    UNION {{<<n, k>> : k \in {j \in DOMAIN graph.adjacency[n] :
                                 graph.adjacency[n][j] \notin Known(graph)}} :
           n \in Known(graph)}

\* the DEPS_RESOLVE errors of the run, in the order of the error list
DepsResolveErrors ==
    SelectSeq(lint_result.errors, LAMBDA r : r.rule_id = "DEPS_RESOLVE")

\* C17: the graph of a run is built whatever its dependencies name;
\* find_unresolved_dependencies() returns one pair (task_id, dependency_id) per
\* dependency entry whose target is not a known node and no other pair, and the run
\* reports one DEPS_RESOLVE error per returned pair, naming the pair's task and
\* dependency
C17_UnresolvedPairsExact ==
    (lint_result.ran /\ ret.op = "find_unresolved_dependencies") =>
        /\ Known(graph) = {usecase.tasks[i].task_id : i \in 1..Len(usecase.tasks)}
        /\ Range(ret.value) =
               {<<e[1], graph.adjacency[e[1]][e[2]]>> : e \in EdgesToUnknown}
        /\ Len(ret.value) = Cardinality(EdgesToUnknown)
        /\ Len(DepsResolveErrors) = Len(ret.value)
        /\ \A k \in 1..Len(ret.value) :
               /\ DepsResolveErrors[k].tasks = <<ret.value[k][1]>>
               /\ DepsResolveErrors[k].message[Len(DepsResolveErrors[k].message)]
                      = Text(ret.value[k][2])

\* two tasks, one with an edge to the other and one with an edge to an unknown id
C17_Witness ==
    /\ lint_result.ran /\ ret.op = "find_unresolved_dependencies"
    /\ Len(ret.value) = 1
    /\ Cardinality(Known(graph)) = 2
    /\ \E n \in Known(graph) : Range(graph.adjacency[n]) \cap Known(graph) # {}

\* how often task_id occurs in the task list given to the run, before overrides
RawOccurrences(task_id) ==
    Cardinality({i \in 1..Len(usecase.tasks) : usecase.tasks[i].task_id = task_id})

\* C18: the run completes and reports one TASK_ID_UNIQUE error for each id that occurs
\* more than once in the raw task list and none for any other id, whatever the sprint
\* scope and the overrides
C18_OneErrorPerDuplicatedId ==
    lint_result.ran =>
        /\ \A task_id \in TaskIds :
               ErrorCount("TASK_ID_UNIQUE", task_id)
                   = IF RawOccurrences(task_id) > 1 THEN 1 ELSE 0
        /\ \A r \in Range(lint_result.errors) :
               r.rule_id = "TASK_ID_UNIQUE" => Len(r.tasks) = 1 /\ r.tasks[1] \in TaskIds

\* a repeated id whose rows are all outside the sprint scope and carry an override
C18_Witness ==
    /\ lint_result.ran
    /\ RawOccurrences("A") = 2
    /\ HasOverride(usecase, "A")
    /\ usecase.sprint_scope # NoSprint
    /\ Scoped = <<>>
    /\ ErrorCount("TASK_ID_UNIQUE", "A") = 1

\* the run reported a cycle
CycleReported == \E r \in Range(lint_result.errors) : r.rule_id = "NO_CYCLES"

\* the findings of the other rules are those the graph and the task list call for
OtherFindingsReported ==
    /\ Len(DepsResolveErrors) = Cardinality(EdgesToUnknown)
    /\ \A task_id \in TaskIds :
           ErrorCount("TASK_ID_UNIQUE", task_id)
               = IF RawOccurrences(task_id) > 1 THEN 1 ELSE 0
    /\ \A i \in 1..Len(Scoped) :
           (Scoped[i].tier = "A" /\ MissingOwner(Scoped[i]))
               => ErrorCount("TIER_A_OWNER_REQUIRED", Scoped[i].task_id) >= 1
    /\ \A e \in LaterSprintEdges :
           ~graph.cross_sprint_allowed[e[1]]
               => \E r \in Range(lint_result.errors) :
                      r.rule_id = "NO_CROSS_SPRINT_UNRESOLVED" /\ r.tasks = e

\* C19: every call of execute() returns a result, never an exception, and a reported
\* cycle leaves the unresolved-dependency, duplicate-id, Tier-A and cross-sprint
\* findings of the same run in place
C19_ExecuteNeverRaises ==
    /\ lint_result # NotRun => lint_result.ran
    /\ (lint_result.ran /\ CycleReported) => OtherFindingsReported

\* the findings of one pass alone, for the runs that return
C19_CycleSuppressesNothing ==
    (lint_result.ran /\ CycleReported) => OtherFindingsReported

\* the known tasks that directly depend on task_id
DirectDependents(task_id) ==
    {m \in Known(graph) : task_id \in Range(graph.adjacency[m])}

\* C20: in every lint run, with or without an override on the task, a dependency id
\* listed more than once in a source record gives a single edge, and the fan-out of
\* every known node is the number of distinct tasks that directly depend on it
C20_DuplicateDependenciesCollapse ==
    (lint_result.ran /\ ret.op = "compute_fanout") =>
        /\ \A m \in Known(graph) : Distinct(graph.adjacency[m])
        /\ \A n \in Known(graph) : ret.value[n] = Cardinality(DirectDependents(n))

(***************************************************************************)
(* SpecParse: the string parsers of Tier, GateProfile and TaskStatus       *)
(***************************************************************************)
\* the words the cells are spelled from, in lower case
ParseWords ==
    {<<"a">>,
     <<"b">>,
     <<"c">>,
     <<"x">>,
     <<"t", "i", "e", "r", "-", "a">>,
     <<"n", "o", "n", "e">>,
     <<"b", "a", "s", "i", "c">>,
     <<"s", "t", "a", "n", "d", "a", "r", "d">>,
     <<"s", "t", "r", "i", "c", "t">>,
     <<"c", "u", "s", "t", "o", "m">>,
     <<"c", "u", "s", "t", "o", "m", ":", "x">>,
     <<"c", "u", "s", "t", "o", "m", ":", "m", "y", "-", "p", "r", "o", "f", "i", "l", "e">>,
     <<"p", "l", "a", "n", "n", "e", "d">>,
     <<"i", "n", " ", "p", "r", "o", "g", "r", "e", "s", "s">>,
     <<"v", "a", "l", "i", "d", "a", "t", "i", "n", "g">>,
     <<"c", "o", "m", "p", "l", "e", "t", "e", "d">>,
     <<"b", "l", "o", "c", "k", "e", "d">>,
     <<"f", "a", "i", "l", "e", "d">>,
     <<"b", "a", "c", "k", "l", "o", "g">>,
     <<"d", "o", "n", "e">>,
     <<"f", "i", "n", "i", "s", "h", "e", "d">>}

\* a word as written, in upper case, capitalised, and padded with spaces
Spellings(word) ==
    LET capitalised == [i \in 1..Len(word) |-> IF i = 1 THEN upper_char(word[i]) ELSE word[i]]
    IN {word, upper(word), capitalised,
        <<" ">> \o word \o <<" ">>, <<" ", " ">> \o upper(word), capitalised \o <<" ">>}

\* the values of a cell: None, the empty string, blanks, and the spelled words
ParseInputs ==
    {NoneSeq, <<>>, <<" ">>, <<" ", " ">>} \cup UNION {Spellings(word) : word \in ParseWords}

ParseInit ==
    /\ graph = EmptyGraph
    /\ AuditIdle
    /\ ret \in {Return("init", value, None) : value \in ParseInputs}
    /\ base = NoTask /\ patch = [kind |-> None] /\ updated = <<>>
    /\ usecase = NoUseCase /\ now = NoNow /\ lint_result = NotRun /\ files = NoFiles

TierFromString ==
    /\ ret' = Return("Tier.from_string", ret.arg, Tier_from_string(ret.arg))
    /\ UNCHANGED <<graph, ovars, lvars, avars>>

GateProfileFromString ==
    /\ ret' = Return("GateProfile.from_string", ret.arg, GateProfile_from_string(ret.arg))
    /\ UNCHANGED <<graph, ovars, lvars, avars>>

TaskStatusFromString ==
    /\ ret' = Return("TaskStatus.from_string", ret.arg, TaskStatus_from_string(ret.arg))
    /\ UNCHANGED <<graph, ovars, lvars, avars>>

NextParse == TierFromString \/ GateProfileFromString \/ TaskStatusFromString

SpecParse == ParseInit /\ [][NextParse]_vars

\* the spellings of the value names a parser recognises
SpellingsOf(names) == UNION {Spellings(lower(name)) : name \in names}

TierSpellings == SpellingsOf({<<t>> : t \in TierValues})
GateProfileSpellings == SpellingsOf({GateProfileChars[p] : p \in GateProfileValues})
TaskStatusSpellings == SpellingsOf({TaskStatusChars[status] : status \in TaskStatusValues})
DoneSpellings == Spellings(<<"d", "o", "n", "e">>)
CustomPrefix == <<"c", "u", "s", "t", "o", "m", ":">>

\* C21: the parsers of tier, gate profile and status return a value for every input
\* (None, empty, blank, any case, padded, unrecognised); a recognised name in any
\* spelling gives its member, an unrecognised input gives C, none and Planned, "done"
\* in any case gives Completed, and a gate profile starting with "custom:" gives strict
C21_ParsersTotalWithDefaults ==
    /\ ret.op = "Tier.from_string" =>
           /\ ret.value \in TierValues
           /\ \A t \in TierValues : ret.arg \in Spellings(lower(<<t>>)) => ret.value = t
           /\ ret.arg \notin TierSpellings => ret.value = "C"
    /\ ret.op = "GateProfile.from_string" =>
           /\ ret.value \in GateProfileValues
           /\ \A p \in GateProfileValues :
                  ret.arg \in Spellings(GateProfileChars[p]) => ret.value = p
           /\ (ret.arg # NoneSeq /\ startswith(ret.arg, CustomPrefix)) => ret.value = "strict"
           /\ (ret.arg \notin GateProfileSpellings
                   /\ \A word \in ParseWords :
                          startswith(word, CustomPrefix) => ret.arg \notin Spellings(word))
                  => ret.value = "none"
    /\ ret.op = "TaskStatus.from_string" =>
           /\ ret.value \in TaskStatusValues
           /\ \A status \in TaskStatusValues :
                  ret.arg \in Spellings(lower(TaskStatusChars[status])) => ret.value = status
           /\ ret.arg \in DoneSpellings => ret.value = "Completed"
           /\ ret.arg \notin TaskStatusSpellings \cup DoneSpellings => ret.value = "Planned"

\* "DONE" was parsed to Completed, "X" to tier C, and a padded "Custom:x" to strict
C21_Witness ==
    \/ ret = Return("TaskStatus.from_string", <<"D", "O", "N", "E">>, "Completed")
    \/ ret = Return("Tier.from_string", <<"X">>, "C")
    \/ ret = Return("GateProfile.from_string", <<"C", "u", "s", "t", "o", "m", ":", "x", " ">>, "strict")

\* the ids of the scoped tasks, those of them some known task directly depends on,
\* and those with no dependency entry and no direct dependent
ScopedIds == {Scoped[i].task_id : i \in 1..Len(Scoped)}
ScopedWithDependents == {n \in ScopedIds : DirectDependents(n) # {}}
ScopedOrphans ==
    {n \in ScopedIds : graph.adjacency[n] = <<>> /\ DirectDependents(n) = {}}

\* C22: in the summary of every lint run, scoped or not, tasks_with_dependents is the
\* number of scoped tasks with at least one direct dependent in the graph, orphan_tasks
\* is the number of scoped tasks with neither a dependency nor a dependent, and
\* orphan_tasks lies between zero and the number of scoped tasks
C22_DependencyStatsAgreeWithGraph ==
    lint_result.ran =>
        LET stats == lint_result.summary.dependency_stats
        IN /\ stats.tasks_with_dependents = Cardinality(ScopedWithDependents)
           /\ stats.orphan_tasks = Cardinality(ScopedOrphans)
           /\ stats.orphan_tasks >= 0
           /\ stats.orphan_tasks <= Len(Scoped)

\* the statistics of the runs without a sprint scope, and the range of orphan_tasks
C22_DependencyStatsUnscoped ==
    lint_result.ran =>
        LET stats == lint_result.summary.dependency_stats
        IN /\ usecase.sprint_scope = NoSprint =>
                  /\ stats.tasks_with_dependents = Cardinality(ScopedWithDependents)
                  /\ stats.orphan_tasks = Cardinality(ScopedOrphans)
           /\ stats.orphan_tasks >= 0
           /\ stats.orphan_tasks <= Len(Scoped)

(***************************************************************************)
(* The audit runner (tools/audit/run_audit.py): tool results, summaries    *)
(***************************************************************************)
\* sorted() of tool ids and of tier strings: the ids and tiers of the model in order
ToolIdOrder == <<"t1", "t2", "t3", "turbo-build">>
TierStringOrder == <<"1", "2", "3">>
sorted_in(order, S) == SelectSeq(order, LAMBDA x : x \in S)

\* _utc_now(): second t of the clock as a fixed-width string of digits
DigitChars == <<"0", "1", "2", "3", "4", "5", "6", "7", "8", "9">>
utc_now(t) == <<DigitChars[(t \div 10) + 1], DigitChars[(t % 10) + 1]>>

\* a < b for two Python strings of digits (character by character, then by length)
DigitOf(c) == CHOOSE k \in 1..Len(DigitChars) : DigitChars[k] = c
str_lt(a, b) ==
    \E k \in 1..(Len(b)) :
        /\ \A j \in 1..(k - 1) : j <= Len(a) /\ a[j] = b[j]
        /\ \/ k = Len(a) + 1
           \/ k <= Len(a) /\ DigitOf(a[k]) < DigitOf(b[k])

\* min(a, b) and max(a, b) of Python: the first argument wins a tie
min(a, b) == IF str_lt(b, a) THEN b ELSE a
max(a, b) == IF str_lt(a, b) THEN b ELSE a

\* exit_code of a tool that was not executed (None)
NoExitCode == -1

\* one entry of summary["tools"]: the fields of a ToolResult the summary keeps
ToolEntry(id, tier, required, enabled, status, code, command, attempts, result_source) ==
    [id |-> id, tier |-> tier, required |-> required, enabled |-> enabled,
     status |-> status, exit_code |-> code, command |-> command, skipped_reason |-> None,
     attempts |-> attempts, result_source |-> result_source]

\* how many entries of the list satisfy the test
Count(tools, Test(_)) == Cardinality({k \in 1..Len(tools) : Test(tools[k])})

\* mutant of _compute_aggregate_result: a required tier-1 tool counts only with status fail
compute_aggregate_result_fail_only(tools) ==
    LET tier1_required_failed ==
            Count(tools, LAMBDA t : t.tier = 1 /\ t.required /\ t.enabled /\ t.status = "fail")
        tier2_warn == Count(tools, LAMBDA t : t.tier = 2 /\ t.status \in {"warn", "fail"})
        tier3_warn == Count(tools, LAMBDA t : t.tier = 3 /\ t.status \in {"warn", "fail"})
    IN [overall_status |-> IF tier1_required_failed > 0 THEN "fail"
                           ELSE IF tier2_warn > 0 \/ tier3_warn > 0 THEN "warn"
                           ELSE "pass",
        counts |-> [status \in {"pass", "fail", "warn", "skipped"} |->
                       Count(tools, LAMBDA t : t.status = status)],
        tier1_required_failed |-> tier1_required_failed,
        tier2_warn_or_fail |-> tier2_warn,
        tier3_warn_or_fail |-> tier3_warn]

compute_aggregate_result(tools) ==
    LET tier1_required_failed ==
            Count(tools, LAMBDA t : t.tier = 1 /\ t.required /\ t.enabled /\ t.status # "pass")
        tier2_warn == Count(tools, LAMBDA t : t.tier = 2 /\ t.status \in {"warn", "fail"})
        tier3_warn == Count(tools, LAMBDA t : t.tier = 3 /\ t.status \in {"warn", "fail"})
    IN [overall_status |-> IF tier1_required_failed > 0 THEN "fail"
                           ELSE IF tier2_warn > 0 \/ tier3_warn > 0 THEN "warn"
                           ELSE "pass",
        counts |-> [status \in {"pass", "fail", "warn", "skipped"} |->
                       Count(tools, LAMBDA t : t.status = status)],
        tier1_required_failed |-> tier1_required_failed,
        tier2_warn_or_fail |-> tier2_warn,
        tier3_warn_or_fail |-> tier3_warn]

\* the summary main() builds from the results of one invocation (generated_at, run_id,
\* paths and the runner's platform are left out: no rule reads them)
Summary(commit_sha, matrix_sha256, tiers, tools, started_at, finished_at, mode, scope) ==
    [commit_sha |-> commit_sha, matrix_sha256 |-> matrix_sha256,
     tiers_requested |-> sorted_in(TierStringOrder, tiers), tools |-> tools,
     started_at |-> started_at, finished_at |-> finished_at, mode |-> mode, scope |-> scope,
     result |-> compute_aggregate_result(tools)]

\* the dict of tools by id: a later entry of the list replaces an earlier one
tools_by_id(tools) ==
    [id \in {tools[k].id : k \in 1..Len(tools)} |->
        tools[CHOOSE k \in 1..Len(tools) :
                 tools[k].id = id /\ \A j \in (k + 1)..Len(tools) : tools[j].id # id]]

\* mutant of _merge_summaries: the tools of the new summary replace the list
merge_summaries_new_tools_only(existing, new) ==
    IF existing.commit_sha # new.commit_sha THEN new
    ELSE IF existing.matrix_sha256 # new.matrix_sha256 THEN new
    ELSE Let(tools_by_id(new.tools), LAMBDA existing_tools :
         Let([k \in 1..Cardinality(DOMAIN existing_tools) |->
                 existing_tools[sorted_in(ToolIdOrder, DOMAIN existing_tools)[k]]],
             LAMBDA tools :
         [new EXCEPT
             !.tiers_requested = sorted_in(TierStringOrder,
                                     Range(existing.tiers_requested) \cup Range(new.tiers_requested)),
             !.tools = tools,
             !.started_at = min(existing.started_at, new.started_at),
             !.finished_at = max(existing.finished_at, new.finished_at),
             !.mode = IF new.mode = None /\ existing.mode # None THEN existing.mode ELSE new.mode,
             !.scope = IF new.scope = None /\ existing.scope # None THEN existing.scope
                       ELSE new.scope,
             !.result = compute_aggregate_result(tools)]))

\* _merge_summaries(existing, new) for two summaries written by main()
merge_summaries(existing, new) ==
    IF existing.commit_sha # new.commit_sha THEN new
    ELSE IF existing.matrix_sha256 # new.matrix_sha256 THEN new
    ELSE Let(tools_by_id(existing.tools \o new.tools), LAMBDA existing_tools :
         Let([k \in 1..Cardinality(DOMAIN existing_tools) |->
                 existing_tools[sorted_in(ToolIdOrder, DOMAIN existing_tools)[k]]],
             LAMBDA tools :
         [new EXCEPT
             !.tiers_requested = sorted_in(TierStringOrder,
                                     Range(existing.tiers_requested) \cup Range(new.tiers_requested)),
             !.tools = tools,
             !.started_at = min(existing.started_at, new.started_at),
             !.finished_at = max(existing.finished_at, new.finished_at),
             !.mode = IF new.mode = None /\ existing.mode # None THEN existing.mode ELSE new.mode,
             !.scope = IF new.scope = None /\ existing.scope # None THEN existing.scope
                       ELSE new.scope,
             !.result = compute_aggregate_result(tools)]))

(***************************************************************************)
(* SpecMerge: successive invocations write the summary of one run id       *)
(***************************************************************************)
\* number of invocations of SpecMerge on the same run id
MaxWrites == 2

\* results of the tier-1 tool t1 (required) and of the tier-2 tool t2
MergeTools(tiers) ==
    LET t1 == {<<ToolEntry("t1", 1, TRUE, TRUE, status, code, "lint", 1, "computed")>> :
                  <<status, code>> \in {<<"pass", 0>>, <<"fail", 1>>}}
        t2 == {<<ToolEntry("t2", 2, FALSE, TRUE, status, code, "scan", 1, "computed")>> :
                  <<status, code>> \in {<<"pass", 0>>, <<"warn", 1>>}}
    IN {a \o b : a \in (IF "1" \in tiers THEN t1 ELSE {<<>>}),
                 b \in (IF "2" \in tiers THEN t2 ELSE {<<>>})}

\* the seconds at which an invocation starts and finishes
MergeTimes == {<<8, 9>>, <<9, 11>>, <<10, 11>>}

\* the summaries of "--tier 1", "--tier 2" and "--mode pr" (tiers 1 and 2, scope affected)
MergeSummaries ==
    UNION {{Summary(id[1], id[2], tiers, tools, utc_now(times[1]), utc_now(times[2]),
                    IF tiers = {"1", "2"} THEN "pr" ELSE None,
                    IF tiers = {"1", "2"} THEN "affected" ELSE "full") :
               id \in {<<"abc", "m1">>, <<"def", "m1">>, <<"abc", "m2">>},
               tools \in MergeTools(tiers), times \in MergeTimes} :
           tiers \in {{"1"}, {"2"}, {"1", "2"}}}

MergeInit ==
    /\ graph = EmptyGraph /\ ret = Return("init", 0, <<>>)
    /\ base = NoTask /\ patch = [kind |-> None] /\ updated = <<>>
    /\ usecase = NoUseCase /\ now = NoNow /\ lint_result = NotRun /\ files = NoFiles
    /\ AuditIdle

\* the end of main(): the summary of the invocation is merged with the summary.json of
\* the run directory, if there is one, and written
WriteSummary ==
    /\ ret.arg < MaxWrites
    /\ \E new \in MergeSummaries :
           LET existing == bundle.summary
               summary == IF existing # NoFile THEN merge_summaries(existing, new) ELSE new
           IN /\ bundle' = [bundle EXCEPT !.summary = summary]
              /\ ret' = Return("main", ret.arg + 1,
                               [existing |-> existing, new |-> new, summary |-> summary])
    /\ UNCHANGED <<graph, ovars, lvars, attestation, spawned, checkout>>

NextMerge == WriteSummary

SpecMerge == MergeInit /\ [][NextMerge]_vars

\* the tool of the list with the given id, if any
EntriesOf(summary, id) == {k \in 1..Len(summary.tools) : summary.tools[k].id = id}
ToolIdsOf(summary) == {summary.tools[k].id : k \in 1..Len(summary.tools)}

\* the merge of the last invocation: the summary on disk, the new one, the one written
Merge == ret.value
SameRun ==
    /\ Merge.existing.commit_sha = Merge.new.commit_sha
    /\ Merge.existing.matrix_sha256 = Merge.new.matrix_sha256

\* C23: merging the summary on disk with a new summary of equal commit_sha and
\* matrix_sha256 keeps every tool id of both, each once, with the new entry where the
\* id is in both and the existing entry otherwise, unions tiers_requested, takes the
\* earlier started_at and the later finished_at, and recomputes result over the merged
\* tools; when commit_sha or matrix_sha256 differs the new summary is written unchanged
C23_MergeUnionsOrReplaces ==
    (ret.op = "main" /\ Merge.existing # NoFile) =>
        IF SameRun
        THEN /\ ToolIdsOf(Merge.summary) = ToolIdsOf(Merge.existing) \cup ToolIdsOf(Merge.new)
             /\ \A id \in ToolIdsOf(Merge.summary) :
                    /\ Cardinality(EntriesOf(Merge.summary, id)) = 1
                    /\ \A k \in EntriesOf(Merge.summary, id) :
                           IF id \in ToolIdsOf(Merge.new)
                           THEN \E j \in EntriesOf(Merge.new, id) :
                                    Merge.summary.tools[k] = Merge.new.tools[j]
                           ELSE \E j \in EntriesOf(Merge.existing, id) :
                                    Merge.summary.tools[k] = Merge.existing.tools[j]
             /\ Range(Merge.summary.tiers_requested) =
                    Range(Merge.existing.tiers_requested) \cup Range(Merge.new.tiers_requested)
             /\ \E t \in 0..99 :
                    /\ Merge.summary.started_at = utc_now(t)
                    /\ utc_now(t) \in {Merge.existing.started_at, Merge.new.started_at}
                    /\ \A u \in 0..99 :
                           utc_now(u) \in {Merge.existing.started_at, Merge.new.started_at}
                               => t <= u
             /\ \E t \in 0..99 :
                    /\ Merge.summary.finished_at = utc_now(t)
                    /\ utc_now(t) \in {Merge.existing.finished_at, Merge.new.finished_at}
                    /\ \A u \in 0..99 :
                           utc_now(u) \in {Merge.existing.finished_at, Merge.new.finished_at}
                               => t >= u
             /\ Merge.summary.result = compute_aggregate_result(Merge.summary.tools)
        ELSE Merge.summary = Merge.new

\* a merge of equal commit and matrix where the new summary re-ran a tool of the
\* existing one with another status and the existing one holds a tool the new lacks
C23_Witness ==
    /\ ret.op = "main" /\ Merge.existing # NoFile /\ SameRun
    /\ \E id \in ToolIdsOf(Merge.existing) \cap ToolIdsOf(Merge.new) :
           \E k \in EntriesOf(Merge.existing, id), j \in EntriesOf(Merge.new, id) :
               Merge.existing.tools[k].status # Merge.new.tools[j].status
    /\ ToolIdsOf(Merge.existing) \ ToolIdsOf(Merge.new) # {}
    /\ Merge.summary.result # Merge.new.result

\* a merge refused because the commit differs
C23_WitnessMismatch ==
    /\ ret.op = "main" /\ Merge.existing # NoFile /\ ~SameRun
    /\ Merge.summary = Merge.new /\ Merge.summary.tools # Merge.existing.tools

(***************************************************************************)
(* Attestations (tools/audit/attestation.py)                               *)
(***************************************************************************)
\* the file _write_json writes for the data, and a file holding the same data laid out
\* otherwise (other indentation or key order)
write_json(data) == [exists |-> TRUE, data |-> data, layout |-> "indent=2, sort_keys"]
Reformatted(file) == [file EXCEPT !.layout = "compact"]

\* file contents json.loads rejects, and a JSON document that is not an object
InvalidJson == [invalid_json |-> TRUE]
JsonArray == [json_array |-> TRUE]
is_dict(data) == data \notin {InvalidJson, JsonArray}

\* hashlib.sha256(bytes).hexdigest(): 64 lower-case hex characters, equal for equal
\* bytes and distinct for distinct bytes (no collision among the files of the model)
sha256_bytes(data) == [hexdigest_of |-> data]
\* mutant of _sha256_file: the parsed data is hashed, not the bytes
sha256_file_of_data(file) == sha256_bytes([data |-> file.data, layout |-> ""])

sha256_file(file) == sha256_bytes([data |-> file.data, layout |-> file.layout])

HexLower == Digits \cup {"a", "b", "c", "d", "e", "f"}
HexAny == HexLower \cup {"A", "B", "C", "D", "E", "F"}
Alnum == Range(UpperChars) \cup Range(LowerChars) \cup Digits
AllIn(v, chars) == \A k \in 1..Len(v) : v[k] \in chars

\* _TASK_ID_RE, _RUN_ID_RE and _SHA_RE matched against a string without line break
TASK_ID_RE_match(v) ==
    Let(split(v, "-"), LAMBDA parts :
        /\ Len(parts) >= 2
        /\ \A k \in 1..Len(parts) :
               parts[k] # <<>> /\ AllIn(parts[k], Range(UpperChars) \cup Digits))
RUN_ID_RE_match(v) ==
    Len(v) >= 2 /\ v[1] \in Alnum /\ AllIn(SubSeq(v, 2, Len(v)), Alnum \cup {".", "_", "-"})
SHA_RE_match(v) == Len(v) >= 7 /\ Len(v) <= 40 /\ AllIn(v, HexAny)

SCHEMA_VERSION == "1.0.0"

\* Optional[bool] and JSON booleans
PyTrue == "True"
PyFalse == "False"
bool(b) == IF b THEN PyTrue ELSE PyFalse

\* the tier-1 required tools of the list that are not disabled
tier1_required(tools) ==
    SelectSeq(tools, LAMBDA t : t.tier = 1 /\ t.required /\ t.enabled # FALSE)

\* mutant of _compute_tier1_required_passed: the aggregate result is not consulted and
\* a tool list without a passing tool is taken for no information
compute_tier1_required_passed_lenient(summary) ==
    Let(tier1_required(summary.tools), LAMBDA required :
        IF \A k \in 1..Len(required) : required[k].status # "pass" THEN None
        ELSE bool(\A k \in 1..Len(required) : required[k].status = "pass"))

compute_tier1_required_passed(summary) ==
    IF "tier1_required_failed" \in DOMAIN summary.result
    THEN bool(summary.result.tier1_required_failed = 0)
    ELSE Let(tier1_required(summary.tools), LAMBDA required :
             IF required = <<>> THEN None
             ELSE bool(\A k \in 1..Len(required) : required[k].status = "pass"))

\* AttestationValidation(ok, errors)
AttestationValidation(errors) == [ok |-> Len(errors) = 0, errors |-> errors]
ErrorIf(condition, message) == IF condition THEN <<message>> ELSE <<>>

\* the run id whose bundle directory the model holds
BundleRunId == <<"l", "o", "c", "a", "l", "-", "s", "m", "o", "k", "e">>

\* validate_attestation_file(path): the checks of the attestation alone
declaration_errors(stem, att) ==
    Let(strip(att.task_id), LAMBDA task_id :
    Let(strip(att.audit.commit_sha), LAMBDA commit_sha :
    Let(strip(att.audit.run_id), LAMBDA run_id :
        ErrorIf(att.schema_version # SCHEMA_VERSION, "schema_version must be '1.0.0'")
        \o ErrorIf(task_id = <<>>, "task_id is required")
        \o ErrorIf(task_id # <<>> /\ ~TASK_ID_RE_match(task_id), "task_id must match")
        \o ErrorIf(task_id # <<>> /\ stem # task_id, "filename must match task_id")
        \o ErrorIf(strip(att.attested_by) = <<>>, "attested_by is required")
        \o ErrorIf(att.generated_at = <<>>, "generated_at is required")
        \o ErrorIf(run_id = <<>>, "audit.run_id is required")
        \o ErrorIf(run_id # <<>> /\ ~RUN_ID_RE_match(run_id),
                   "audit.run_id contains invalid characters")
        \o ErrorIf(att.audit.summary_json = "", "audit.summary_json is required")
        \o ErrorIf(commit_sha = <<>>, "audit.commit_sha is required")
        \o ErrorIf(commit_sha # <<>> /\ ~SHA_RE_match(commit_sha),
                   "audit.commit_sha must be a git sha (7-40 hex)")
        \o ErrorIf(att.audit.overall_status \notin {"pass", "fail", "warn"},
                   "audit.overall_status must be one of: pass, fail, warn")
        \o ErrorIf(att.audit.tier1_required_passed \notin {PyTrue, PyFalse},
                   "audit.tier1_required_passed must be a boolean"))))

\* validate_attestation_file(path): the checks against the parsed summary.json
linkage_errors(att, summary) ==
    Let(strip(att.audit.commit_sha), LAMBDA commit_sha :
    Let(strip(summary.commit_sha), LAMBDA actual_commit :
    Let(compute_tier1_required_passed(summary), LAMBDA computed_tier1 :
        ErrorIf(commit_sha # <<>> /\ actual_commit # <<>> /\ actual_commit # commit_sha,
                "audit.commit_sha mismatch")
        \o ErrorIf(summary.matrix_sha256 # att.audit.matrix_sha256,
                   "audit.matrix_sha256 mismatch with bundle summary.json")
        \o ErrorIf(att.audit.overall_status # "" /\ summary.result.overall_status # ""
                       /\ summary.result.overall_status # att.audit.overall_status,
                   "audit.overall_status mismatch with bundle summary.json")
        \o ErrorIf(att.audit.tier1_required_passed \in {PyTrue, PyFalse}
                       /\ computed_tier1 # None
                       /\ computed_tier1 # att.audit.tier1_required_passed,
                   "audit.tier1_required_passed mismatch with bundle summary.json")
        \o ErrorIf(computed_tier1 = PyFalse,
                   "tier1 required tools did not pass for this run-id"))))

\* validate_attestation_file(path, audit_bundles_dir) on the attestation file of the
\* given stem and the bundle directory (the digests are well-formed by construction)
validate_attestation_file(stem, file, dir) ==
    IF file = NoFile \/ file.data = InvalidJson
    THEN [ok |-> FALSE, errors |-> <<"invalid JSON">>]
    ELSE IF ~is_dict(file.data)
    THEN [ok |-> FALSE, errors |-> <<"root must be a JSON object">>]
    ELSE Let(declaration_errors(stem, file.data), LAMBDA errors :
         IF strip(file.data.audit.run_id) = <<>> THEN AttestationValidation(errors)
         ELSE IF strip(file.data.audit.run_id) # BundleRunId \/ dir.summary = NoFile
         THEN [ok |-> FALSE, errors |-> errors \o <<"missing audit bundle summary">>]
         ELSE Let(errors \o ErrorIf(sha256_file(dir.summary) # file.data.audit.summary_sha256,
                                    "audit.summary_sha256 does not match summary.json"),
                  LAMBDA checked :
              IF dir.summary.data = InvalidJson
              THEN [ok |-> FALSE,
                    errors |-> checked \o <<"unable to parse audit summary.json">>]
              ELSE IF ~is_dict(dir.summary.data)
              THEN [ok |-> FALSE,
                    errors |-> checked \o <<"audit summary.json root must be an object">>]
              ELSE AttestationValidation(
                       checked \o linkage_errors(file.data, dir.summary.data))))

\* the outcome of generate_attestation: the exception raised, or the file written
Raise(exception, message) == [raised |-> exception, message |-> message]
Written(file) == [raised |-> None, file |-> file]

\* generate_attestation(task_id, run_id, attested_by, notes, ..., force) with no
\* audit-cutover.yml and no notes; existing is the file at attestations_dir/<task_id>.json
generate_attestation(task_id, run_id, attested_by, existing, dir, force) ==
    IF ~TASK_ID_RE_match(task_id) THEN Raise("ValueError", "task_id must match")
    ELSE IF ~RUN_ID_RE_match(run_id)
    THEN Raise("ValueError", "run_id contains invalid characters")
    ELSE IF strip(attested_by) = <<>> THEN Raise("ValueError", "attested_by is required")
    ELSE IF run_id # BundleRunId \/ dir.summary = NoFile
    THEN Raise("FileNotFoundError", "audit summary not found")
    ELSE IF dir.summary.data = InvalidJson THEN Raise("JSONDecodeError", "")
    ELSE IF ~is_dict(dir.summary.data)
    THEN Raise("ValueError", "audit summary.json root must be an object")
    ELSE Let(dir.summary.data, LAMBDA summary :
         Let(compute_tier1_required_passed(summary), LAMBDA tier1_passed :
         IF strip(summary.commit_sha) = <<>> \/ ~SHA_RE_match(strip(summary.commit_sha))
         THEN Raise("ValueError", "audit summary.json missing commit_sha")
         ELSE IF summary.result.overall_status \notin {"pass", "fail", "warn"}
         THEN Raise("ValueError", "audit summary.json missing overall_status")
         ELSE IF tier1_passed = PyFalse
         THEN Raise("ValueError",
                    "cannot generate attestation: tier1 required tools did not pass")
         ELSE IF existing # NoFile /\ ~force
         THEN Raise("FileExistsError", "attestation already exists")
         ELSE Written(write_json(
                  [schema_version |-> SCHEMA_VERSION,
                   task_id |-> task_id,
                   generated_at |-> utc_now(0),
                   attested_by |-> strip(attested_by),
                   audit |-> [run_id |-> run_id,
                              summary_json |-> "summary.json",
                              summary_sha256 |-> sha256_file(dir.summary),
                              commit_sha |-> strip(summary.commit_sha),
                              matrix_sha256 |-> summary.matrix_sha256,
                              overall_status |-> summary.result.overall_status,
                              tier1_required_passed |->
                                  IF tier1_passed = None THEN PyTrue ELSE tier1_passed]]))))

(***************************************************************************)
(* SpecAttest: one bundle, one attestation file, summary.json changing     *)
(***************************************************************************)
\* git rev-parse HEAD, and "unknown" when git fails
HeadSha == <<"1", "5", "c", "5", "3", "8", "e", "d">>
UnknownSha == <<"u", "n", "k", "n", "o", "w", "n">>
\* _sha256_file(matrix_path)
MatrixSha256 == sha256_bytes("audit-matrix.yml")

\* the tool lists of an invocation of tier 1: the required tool passed, failed, was
\* skipped (missing env) or is disabled in the matrix, or only an optional tool ran
PassedTool == ToolEntry("t1", 1, TRUE, TRUE, "pass", 0, "lint", 1, "computed")
AttestTools ==
    {<<PassedTool>>,
     <<ToolEntry("t1", 1, TRUE, TRUE, "fail", 1, "lint", 2, "computed")>>,
     <<ToolEntry("t1", 1, TRUE, TRUE, "skipped", NoExitCode, "lint", 0, "computed")>>,
     <<ToolEntry("t1", 1, TRUE, FALSE, "skipped", NoExitCode, "lint", 0, "computed")>>,
     <<PassedTool, ToolEntry("t3", 1, FALSE, TRUE, "warn", 1, "scan", 1, "computed")>>}

AttestSummaries ==
    {Summary(HeadSha, MatrixSha256, {"1"}, tools, utc_now(8), utc_now(9), None, "full") :
        tools \in AttestTools}
    \cup {Summary(UnknownSha, MatrixSha256, {"1"}, <<PassedTool>>, utc_now(8), utc_now(9),
                  None, "full")}

\* a summary edited by hand: the result keeps the overall status only
WithoutCounts(summary) ==
    [summary EXCEPT !.result = [overall_status |-> summary.result.overall_status]]

\* what summary.json may hold: a summary as written, the same laid out otherwise or
\* edited, text that is not JSON, and a JSON array
SummaryFiles ==
    {write_json(summary) : summary \in AttestSummaries}
        \cup {Reformatted(write_json(summary)) : summary \in AttestSummaries}
        \cup {write_json(WithoutCounts(summary)) : summary \in AttestSummaries}
        \cup {write_json(InvalidJson), write_json(JsonArray)}

\* the attestation of the model is artifacts/attestations/IFC-160.json
AttestedTask == <<"I", "F", "C", "-", "1", "6", "0">>

\* the files attested so far: the summary.json the attestation was generated from
Attested(file) == [attested |-> file]

AttestInit ==
    /\ graph = EmptyGraph /\ ret = Return("init", Attested(NoFile), <<>>)
    /\ base = NoTask /\ patch = [kind |-> None] /\ updated = <<>>
    /\ usecase = NoUseCase /\ now = NoNow /\ lint_result = NotRun /\ files = NoFiles
    /\ bundle \in {[summary |-> file, evidence |-> {}] :
                      file \in {write_json(summary) : summary \in AttestSummaries}}
    /\ attestation = NoFile /\ spawned = <<>> /\ checkout = NoCheckout

\* the calls of generate_attestation: well-formed with and without --force, and one
\* call for each argument the function rejects
GenerateArgs ==
    LET call == [task_id |-> AttestedTask, run_id |-> BundleRunId,
                 attested_by |-> <<"T", "e", "c", "h", " ", "L", "e", "a", "d">>, force |-> FALSE]
    IN {call, [call EXCEPT !.force = TRUE],
        [call EXCEPT !.task_id = <<"i", "f", "c", "-", "1", "6", "0">>],
        [call EXCEPT !.run_id = <<"x">>],
        [call EXCEPT !.run_id = <<"o", "t", "h", "e", "r", "-", "r", "u", "n">>],
        [call EXCEPT !.attested_by = <<" ">>]}

GenerateAttestation ==
    /\ \E args \in GenerateArgs :
           LET out == generate_attestation(args.task_id, args.run_id, args.attested_by,
                                           attestation, bundle, args.force)
           IN /\ attestation' = IF out.raised = None THEN out.file ELSE attestation
              /\ ret' = Return("generate_attestation",
                               IF out.raised = None THEN Attested(bundle.summary)
                               ELSE ret.arg, out)
    /\ UNCHANGED <<graph, ovars, lvars, bundle, spawned, checkout>>

ValidateAttestationFile ==
    /\ ret' = Return("validate_attestation_file", ret.arg,
                     validate_attestation_file(AttestedTask, attestation, bundle))
    /\ UNCHANGED <<graph, ovars, lvars, avars>>

\* summary.json is rewritten with other content
ChangeSummary ==
    /\ \E file \in SummaryFiles \ {bundle.summary} :
           bundle' = [bundle EXCEPT !.summary = file]
    /\ ret' = Return("write summary.json", ret.arg, <<>>)
    /\ UNCHANGED <<graph, ovars, lvars, attestation, spawned, checkout>>

NextAttest == GenerateAttestation \/ ValidateAttestationFile \/ ChangeSummary

SpecAttest == AttestInit /\ [][NextAttest]_vars

ShaError == "audit.summary_sha256 does not match summary.json"

C24_WitnessFresh ==
    /\ ret.op = "validate_attestation_file" /\ attestation # NoFile
    /\ ret.arg.attested = bundle.summary /\ ret.value.ok

\* an attestation written by hand for the bundle as it is: linked to the current
\* summary.json by its digest, commit and matrix, declaring any status and tier-1 flag
DeclareAttestation ==
    /\ bundle.summary # NoFile /\ is_dict(bundle.summary.data)
    /\ \E overall_status \in {"pass", "fail"}, tier1_required_passed \in {PyTrue, PyFalse} :
           attestation' = write_json(
               [schema_version |-> SCHEMA_VERSION,
                task_id |-> AttestedTask,
                generated_at |-> utc_now(0),
                attested_by |-> <<"q", "a">>,
                audit |-> [run_id |-> BundleRunId,
                           summary_json |-> "summary.json",
                           summary_sha256 |-> sha256_file(bundle.summary),
                           commit_sha |-> <<"1", "5", "c", "5", "3", "8", "e", "d">>,
                           matrix_sha256 |-> bundle.summary.data.matrix_sha256,
                           overall_status |-> overall_status,
                           tier1_required_passed |-> tier1_required_passed]])
    /\ ret' = Return("write attestation", Attested(NoFile), <<>>)
    /\ UNCHANGED <<graph, ovars, lvars, bundle, spawned, checkout>>

NextAttestDeclared ==
    GenerateAttestation \/ ValidateAttestationFile \/ ChangeSummary \/ DeclareAttestation

SpecAttestDeclared == AttestInit /\ [][NextAttestDeclared]_vars

\* the summary shows a tier-1 required tool, enabled in the matrix, that did not pass
Tier1RequiredDidNotPass(summary) ==
    \E k \in 1..Len(summary.tools) :
        /\ summary.tools[k].tier = 1 /\ summary.tools[k].required
        /\ summary.tools[k].enabled /\ summary.tools[k].status # "pass"

FailedBundle ==
    /\ bundle.summary # NoFile /\ is_dict(bundle.summary.data)
    /\ Tier1RequiredDidNotPass(bundle.summary.data)

\* C25: while the summary of the bundle shows a tier-1 required tool that did not pass,
\* generate_attestation raises and leaves the attestation file as it was, and
\* validate_attestation_file is not ok whatever the attestation declares
C25_NoAttestationForFailedAudit ==
    /\ [](FailedBundle /\ ret.op = "validate_attestation_file" => ~ret.value.ok)
    /\ [](FailedBundle /\ ret.op = "generate_attestation" => ret.value.raised # None)
    /\ [][(FailedBundle /\ ret'.op = "generate_attestation")
             => attestation' = attestation]_vars

\* an attestation linked to a failed bundle and declaring that tier 1 passed was
\* validated and refused
C25_Witness ==
    /\ FailedBundle /\ ret.op = "validate_attestation_file" /\ attestation # NoFile
    /\ attestation.data.audit.tier1_required_passed = PyTrue
    /\ attestation.data.audit.overall_status = "pass"
    /\ attestation.data.audit.summary_sha256 = sha256_file(bundle.summary)
    /\ ~ret.value.ok

\* a NO_CYCLES error of the run names the tasks of the cycle
CycleErrorFor(cycle) ==
    \E r \in Range(lint_result.errors) :
        r.rule_id = "NO_CYCLES" /\ Range(r.tasks) = Range(cycle)

\* the ids of the tasks whose sprint as given to the use case, before overrides, is the scope
RawScopedIds ==
    {usecase.tasks[i].task_id :
        i \in {j \in 1..Len(usecase.tasks) : usecase.tasks[j].sprint = usecase.sprint_scope}}

\* C26: with a sprint scope a cycle of the full graph gives a NO_CYCLES error exactly
\* when one of its tasks is in the scoped subset of the other rules (sprint after
\* overrides equal to the scope); with no scope every detected cycle gives an error
C26_CycleErrorIffScopedTaskOnCycle ==
    lint_result.ran =>
        \A cycle \in Range(detect_cycles(graph)) :
            CycleErrorFor(cycle)
                <=> (usecase.sprint_scope = NoSprint \/ Range(cycle) \cap ScopedIds # {})

\* the cycle filter as it is computed: by the sprint of the tasks before overrides
C26_CycleErrorIffRawSprintInScope ==
    lint_result.ran =>
        \A cycle \in Range(detect_cycles(graph)) :
            CycleErrorFor(cycle)
                <=> (usecase.sprint_scope = NoSprint \/ Range(cycle) \cap RawScopedIds # {})

\* the artifacts the PHANTOM_COMPLETION errors of the run list as missing for task_id
ListedMissing(task_id) ==
    UNION {Range(r.metadata.missing_artifacts) :
              r \in {e \in Range(lint_result.errors) :
                        e.rule_id = "PHANTOM_COMPLETION" /\ e.tasks = <<task_id>>}}

\* the ARTIFACT_PATH_SUGGESTION warnings of the run
SuggestionWarnings ==
    {w \in Range(lint_result.warnings) : w.rule_id = "ARTIFACT_PATH_SUGGESTION"}

\* the status of the scoped task of that id
StatusOf(task_id) ==
    {Scoped[i].status : i \in {j \in 1..Len(Scoped) : Scoped[j].task_id = task_id}}

\* C27: no run holds both a PHANTOM_COMPLETION error listing artifact p as missing for
\* task t and an ARTIFACT_PATH_SUGGESTION warning for the same t and p; suggestion
\* warnings are emitted only for artifacts of tasks that are not Completed
C27_SuggestionNeverDuplicatesPhantom ==
    lint_result.ran =>
        \A w \in SuggestionWarnings :
            /\ w.metadata.expected_path \notin ListedMissing(w.tasks[1])
            /\ "Completed" \notin StatusOf(w.tasks[1])

\* what the two rules share: a suggestion warning is about a valid path without a
\* wildcard that does not exist, and for a Completed task the same path is listed as
\* missing by the PHANTOM_COMPLETION error of that task
C27_SuggestionOfCompletedIsListedMissing ==
    lint_result.ran =>
        \A w \in SuggestionWarnings :
            /\ is_valid_artifact_path(w.metadata.expected_path).is_valid
            /\ ~exists(files, w.metadata.expected_path)
            /\ "Completed" \in StatusOf(w.tasks[1])
                   => w.metadata.expected_path \in ListedMissing(w.tasks[1])

\* the distinct artifact strings a task declares: its artifacts, the evidence of its
\* override and its own evidence
Declared(task) ==
    Range(task.artifacts_expected)
        \cup (IF HasOverride(usecase, task.task_id)
              THEN Range(usecase.overrides[task.task_id].evidence_required) ELSE {})
        \cup Range(task.evidence_required)

\* how many INVALID_ARTIFACT_PATH errors of the run report path for task_id
InvalidReports(task_id, path) ==
    Cardinality({k \in 1..Len(lint_result.errors) :
                    /\ lint_result.errors[k].rule_id = "INVALID_ARTIFACT_PATH"
                    /\ lint_result.errors[k].tasks = <<task_id>>
                    /\ lint_result.errors[k].metadata.invalid_path = path})

\* how many entries of the missing lists of the PHANTOM_COMPLETION errors of task_id
\* are path
MissingReports(task_id, path) ==
    Cardinality({pos \in (1..Len(lint_result.errors)) \X (1..(MaxArtifacts + 2)) :
                    /\ lint_result.errors[pos[1]].rule_id = "PHANTOM_COMPLETION"
                    /\ lint_result.errors[pos[1]].tasks = <<task_id>>
                    /\ pos[2] <= Len(lint_result.errors[pos[1]].metadata.missing_artifacts)
                    /\ lint_result.errors[pos[1]].metadata.missing_artifacts[pos[2]] = path})

\* the artifact errors of one Completed task: what each declared string gives, and
\* whether the reports of a path may number as many as AtMost allows
Reported(task, AtMost(_, _)) ==
    /\ ErrorCount("PHANTOM_COMPLETION", task.task_id) <= 1
    /\ \A declared \in Declared(task) :
           LET path == strip(declared)
               invalid == InvalidReports(task.task_id, path)
               missing == MissingReports(task.task_id, path)
           IN /\ AtMost(path, invalid + missing)
              /\ IF path = <<>> THEN invalid = 0 /\ missing = 0
                 ELSE IF ~is_valid_artifact_path(path).is_valid
                      THEN invalid >= 1 /\ missing = 0
                 ELSE IF ~artifact_exists(files, path)
                      THEN invalid = 0 /\ missing >= 1
                 ELSE invalid = 0 /\ missing = 0

\* a task that is not Completed gets neither artifact error
NotReported(task) ==
    /\ ErrorCount("INVALID_ARTIFACT_PATH", task.task_id) = 0
    /\ ErrorCount("PHANTOM_COMPLETION", task.task_id) = 0

\* C28: with a project root, each distinct artifact string a Completed scoped task
\* declares (artifacts, override evidence, task evidence) is reported at most once: by
\* an INVALID_ARTIFACT_PATH error when it is not a path, else in the missing list of the
\* single PHANTOM_COMPLETION error of the task when the path does not exist, else not
\* at all; an invalid string is never listed as missing, and a task that is not
\* Completed gets neither error
C28_ArtifactReportedOnce ==
    (lint_result.ran /\ usecase.project_root # None) =>
        \A i \in 1..Len(Scoped) :
            IF Scoped[i].status = "Completed"
            THEN Reported(Scoped[i],
                          LAMBDA path, reports :
                              reports <= Cardinality({other \in Declared(Scoped[i]) :
                                                         strip(other) = path}))
            ELSE NotReported(Scoped[i])

\* the same without the count: an invalid string is reported and never listed as
\* missing, a missing path is listed and never reported as invalid, an existing path
\* and a blank entry give nothing, and there is at most one PHANTOM_COMPLETION error
C28_InvalidNeverListedMissing ==
    (lint_result.ran /\ usecase.project_root # None) =>
        \A i \in 1..Len(Scoped) :
            IF Scoped[i].status = "Completed"
            THEN Reported(Scoped[i], LAMBDA path, reports : TRUE)
            ELSE NotReported(Scoped[i])

(***************************************************************************)
(* tools/audit/run_audit.py: _run_tool and main, full scope                *)
(***************************************************************************)
\* the evidence files of a tool in the run directory
EvidenceSuffixes == {"command.txt", "log", "exit"}
EvidenceFiles(tool_id) == {<<tool_id, suffix>> : suffix \in EvidenceSuffixes}

\* one entry of the tools list of audit-matrix.yml
MatrixTool(id, tier, required, enabled, command, retries, requires_env) ==
    [id |-> id, tier |-> tier, required |-> required, enabled |-> enabled,
     command |-> command, retries |-> retries, requires_env |-> requires_env]

selected_tiers(tier_arg) == IF tier_arg = "all" THEN {1, 2, 3} ELSE {DigitOf(tier_arg) - 1}

tool_is_selected(tool, tiers) == tool.tier \in tiers

\* (ok, reason)
tool_env_ok(tool, environ) ==
    IF tool.requires_env = {} THEN [ok |-> TRUE, reason |-> None]
    ELSE IF tool.requires_env \ environ # {} THEN [ok |-> FALSE, reason |-> "missing env"]
    ELSE [ok |-> TRUE, reason |-> None]

\* _resolve_command with scope "full": (command, skip_reason); a turbo task is
\* rewritten when a cache flag is requested through the environment
resolve_command(tool, environ) ==
    LET read_only == "TURBO_REMOTE_CACHE_READ_ONLY" \in environ
        force == "TURBO_FORCE" \in environ
    IN IF tool.id = "turbo-build" /\ (read_only \/ force)
       THEN [command |-> IF read_only /\ force
                         THEN "pnpm exec turbo run build --remote-cache-read-only --force"
                         ELSE IF read_only
                         THEN "pnpm exec turbo run build --remote-cache-read-only"
                         ELSE "pnpm exec turbo run build --force",
             scope_skip |-> None]
       ELSE [command |-> tool.command, scope_skip |-> None]

\* a ToolResult that ran no process
SkippedResult(tool, command, skipped_reason) ==
    [ToolEntry(tool.id, tool.tier, tool.required, tool.enabled, "skipped", NoExitCode,
               command, 0, "computed") EXCEPT !.skipped_reason = skipped_reason]

\* the while True loop of _run_tool after attempt iterations: exit_of[n] is what
\* proc.wait() returns for the n-th process; the result is the attempt counter and
\* the exit codes of the processes spawned from here on, in order
RECURSIVE retry_loop(_, _, _)
retry_loop(retries, exit_of, attempt) ==
    LET this == attempt + 1
        code == exit_of[this]
    IN IF code = 0 \/ this > retries + 1 THEN [attempt |-> this, codes |-> <<code>>]
       ELSE [retry_loop(retries, exit_of, this) EXCEPT !.codes = <<code>> \o @]

\* a variant of the reuse test that takes any earlier result
can_reuse_any_status(prev_status, can_reuse_skip) == TRUE

can_reuse(prev_status, can_reuse_skip) == prev_status \in {"pass"} \/ can_reuse_skip

\* no entry of the tool in the index of the existing summary
NoEntry == [id |-> None]

\* what _run_tool hands back and leaves behind: the ToolResult, the evidence files of the
\* run directory and the exit codes of the processes it spawned
RunOutcome(result, evidence, codes) ==
    [result |-> result, evidence |-> evidence,
     spawned |-> [n \in 1..Len(codes) |->
                     [tool_id |-> result.id, attempt |-> n, exit_code |-> codes[n]]]]

run_tool(evidence, tool, environ, existing_tool, resume, exit_of) ==
    Let(evidence \cup EvidenceFiles(tool.id), LAMBDA written :
    Let(tool_env_ok(tool, environ), LAMBDA env :
    Let(resolve_command(tool, environ), LAMBDA resolved :
        IF ~tool.enabled
        THEN RunOutcome(SkippedResult(tool, tool.command, "disabled in matrix"), written, <<>>)
        ELSE IF ~env.ok
        THEN RunOutcome(SkippedResult(tool, tool.command, env.reason), written, <<>>)
        ELSE IF resolved.scope_skip # None
        THEN RunOutcome(SkippedResult(tool, resolved.command, resolved.scope_skip),
                        written, <<>>)
        ELSE IF resolved.command = None
        THEN RunOutcome(SkippedResult(tool, None, "no local command (CI-only or manual)"),
                        written, <<>>)
        ELSE IF /\ resume
                /\ existing_tool # NoEntry
                /\ can_reuse(existing_tool.status,
                             /\ existing_tool.status = "skipped"
                             /\ existing_tool.skipped_reason # None
                             /\ tool_env_ok(tool, environ).reason # None)
                /\ EvidenceFiles(tool.id) \subseteq evidence
                /\ existing_tool.command = resolved.command
        THEN RunOutcome([ToolEntry(tool.id, tool.tier, tool.required, tool.enabled,
                                   existing_tool.status, existing_tool.exit_code,
                                   resolved.command, existing_tool.attempts, "reused")
                            EXCEPT !.skipped_reason = existing_tool.skipped_reason],
                        evidence, <<>>)
        ELSE Let(retry_loop(tool.retries, exit_of, 0), LAMBDA loop :
             Let(loop.codes[Len(loop.codes)], LAMBDA code :
                 RunOutcome(ToolEntry(tool.id, tool.tier, tool.required, tool.enabled,
                                      IF code = 0 THEN "pass"
                                      ELSE IF tool.required /\ tool.tier = 1 THEN "fail"
                                      ELSE "warn",
                                      code, resolved.command, loop.attempt, "computed"),
                            written, loop.codes))))))

\* sorted(tools, key=lambda x: (int(x["tier"]), str(x["id"]))) for tools of distinct ids
sorted_by_tier_and_id(tools) ==
    LET ids(tier) == sorted_in(ToolIdOrder, {tools[k].id : k \in {j \in 1..Len(tools) :
                                                                 tools[j].tier = tier}})
        order == ids(1) \o ids(2) \o ids(3)
    IN [n \in 1..Len(order) |-> tools[CHOOSE k \in 1..Len(tools) : tools[k].id = order[n]]]

\* _load_existing_summary
load_existing_summary(dir) ==
    IF dir.summary = NoFile THEN NoFile
    ELSE IF ~is_dict(dir.summary.data) THEN NoFile
    ELSE dir.summary.data

\* main(["--tier", tier] + (["--resume"] if resume else [])) with --concurrency 1 in
\* the run directory dir: exit_of[id][n] is the exit code of the n-th process of a tool
main(tier, resume, dir, repo, exit_of) ==
    Let(selected_tiers(tier), LAMBDA tiers :
    Let(sha256_bytes(repo.matrix), LAMBDA matrix_sha256 :
    Let(IF resume THEN load_existing_summary(dir) ELSE NoFile, LAMBDA existing_summary :
    Let(IF existing_summary = NoFile THEN FALSE
        ELSE /\ existing_summary.commit_sha = repo.commit_sha
             /\ existing_summary.matrix_sha256 = matrix_sha256, LAMBDA existing_ok :
    Let(IF existing_ok THEN tools_by_id(existing_summary.tools) ELSE << >>,
        LAMBDA existing_tool_index :
    Let(sorted_by_tier_and_id(SelectSeq(repo.matrix,
                                        LAMBDA t : tool_is_selected(t, tiers))),
        LAMBDA selected_tools_sorted :
    LET run[n \in 0..Len(selected_tools_sorted)] ==
            IF n = 0 THEN [results |-> <<>>, evidence |-> dir.evidence, spawned |-> <<>>]
            ELSE Let(selected_tools_sorted[n], LAMBDA tool :
                 Let(run_tool(run[n - 1].evidence, tool, repo.environ,
                              IF tool.id \in DOMAIN existing_tool_index
                              THEN existing_tool_index[tool.id] ELSE NoEntry,
                              existing_ok /\ resume, exit_of[tool.id]), LAMBDA r :
                     [results |-> Append(run[n - 1].results, r.result),
                      evidence |-> r.evidence,
                      spawned |-> run[n - 1].spawned \o r.spawned]))
    IN Let(run[Len(selected_tools_sorted)], LAMBDA done :
       Let(Summary(repo.commit_sha, matrix_sha256, {DigitChars[t + 1] : t \in tiers},
                   sorted_by_tier_and_id(done.results), utc_now(8), utc_now(9), None, "full"),
           LAMBDA summary :
       Let(IF dir.summary = NoFile THEN summary
           ELSE IF ~is_dict(dir.summary.data) THEN summary
           ELSE merge_summaries(dir.summary.data, summary), LAMBDA merged :
           [results |-> done.results,
            dir |-> [summary |-> write_json(merged), evidence |-> done.evidence],
            spawned |-> done.spawned,
            resume |-> existing_ok /\ resume,
            existing_tool_index |-> existing_tool_index,
            exit |-> IF merged.result.tier1_required_failed > 0 THEN 1 ELSE 0])))))))))

(***************************************************************************)
(* Invocations of the audit runner on one run id, between changes of the   *)
(* checkout and of the run directory                                       *)
(***************************************************************************)
\* invocations of main() on the run id
MaxRuns == 2
\* largest retries setting of a tool of the matrix
MaxRetries == 1

\* HEAD after one more commit
NextSha == <<"9", "f", "2", "a", "4", "1", "c", "0">>

EnvNames == {"TURBO_FORCE", "TURBO_TOKEN"}

\* audit-matrix.yml: one tier-1 turbo task that needs a token
AuditMatrix(required, retries, enabled) ==
    <<MatrixTool("turbo-build", 1, required, enabled, "pnpm run build", retries,
                 {"TURBO_TOKEN"})>>

Checkout(commit_sha, matrix, environ) ==
    [commit_sha |-> commit_sha, matrix |-> matrix, environ |-> environ]

\* a command that exits non-zero the first failures times it runs and 0 afterwards
ExitCodes(failures) == [n \in 1..(MaxRetries + 3) |-> IF n <= failures THEN 1 ELSE 0]

\* how often the command of the tool fails before it succeeds: up to once more than
\* the loop can run it
RunFailures == 0..(MaxRetries + 2)

AuditInit ==
    /\ graph = EmptyGraph /\ ret = Return("init", 0, <<>>)
    /\ base = NoTask /\ patch = [kind |-> None] /\ updated = <<>>
    /\ usecase = NoUseCase /\ now = NoNow /\ lint_result = NotRun /\ files = NoFiles
    /\ bundle = NoBundle /\ attestation = NoFile /\ spawned = <<>>
    /\ checkout \in {Checkout(HeadSha, AuditMatrix(required, retries, TRUE), environ) :
                        required \in BOOLEAN, retries \in 0..MaxRetries,
                        environ \in {{}, {"TURBO_TOKEN"}}}

\* python run_audit.py --tier <tier> [--resume] --run-id <the run id>
RunAudit ==
    /\ ret.arg < MaxRuns
    /\ \E tier \in {"1", "2"}, resume \in BOOLEAN, failures \in RunFailures :
           LET out == main(tier, resume, bundle, checkout,
                           [id \in {"turbo-build"} |-> ExitCodes(failures)])
           IN /\ bundle' = out.dir
              /\ spawned' = out.spawned
              /\ ret' = Return("main", ret.arg + 1,
                               [tier |-> tier, resume |-> resume, before |-> bundle,
                                results |-> out.results, exit |-> out.exit])
    /\ UNCHANGED <<graph, ovars, lvars, attestation, checkout>>

\* git commit: HEAD moves (between two invocations, like each change below)
Commit ==
    /\ ret.op = "main"
    /\ checkout.commit_sha = HeadSha
    /\ checkout' = [checkout EXCEPT !.commit_sha = NextSha]
    /\ ret' = Return("git commit", ret.arg, <<>>)
    /\ UNCHANGED <<graph, ovars, lvars, bundle, attestation, spawned>>

\* audit-matrix.yml is edited: the turbo task is disabled or enabled again
EditMatrix ==
    /\ ret.op = "main"
    /\ checkout' = [checkout EXCEPT !.matrix[1].enabled = ~@]
    /\ ret' = Return("edit audit-matrix.yml", ret.arg, <<>>)
    /\ UNCHANGED <<graph, ovars, lvars, bundle, attestation, spawned>>

\* a variable of the environment is set or unset
SetEnv ==
    /\ ret.op = "main"
    /\ \E name \in EnvNames :
           checkout' = [checkout EXCEPT !.environ = IF name \in @ THEN @ \ {name}
                                                    ELSE @ \cup {name}]
    /\ ret' = Return("export", ret.arg, <<>>)
    /\ UNCHANGED <<graph, ovars, lvars, bundle, attestation, spawned>>

\* one of the three evidence files of a tool is deleted from the run directory
RemoveEvidence ==
    /\ ret.op = "main"
    /\ \E file \in bundle.evidence :
           /\ EvidenceFiles(file[1]) \subseteq bundle.evidence
           /\ bundle' = [bundle EXCEPT !.evidence = @ \ {file}]
    /\ ret' = Return("rm", ret.arg, <<>>)
    /\ UNCHANGED <<graph, ovars, lvars, attestation, spawned, checkout>>

NextAudit == RunAudit \/ Commit \/ EditMatrix \/ SetEnv \/ RemoveEvidence

SpecAudit == AuditInit /\ [][NextAudit]_vars

\* the tool of the matrix with that id
ToolOf(tool_id) ==
    checkout.matrix[CHOOSE k \in 1..Len(checkout.matrix) : checkout.matrix[k].id = tool_id]

\* the processes the last invocation spawned for the tool
Executions(tool_id) == SelectSeq(spawned, LAMBDA p : p.tool_id = tool_id)

\* C29: a tool with retries = N is executed at most N + 1 times, execution stops at the
\* first attempt that exits with code 0, a tool with retries = 0 is executed exactly
\* once even when it fails, and the recorded attempts count is the number of executions
C29_RetriesBoundExecutions ==
    ret.op = "main" =>
        \A k \in 1..Len(ret.value.results) :
            LET result == ret.value.results[k]
                executions == Executions(result.id)
            IN result.result_source = "computed" /\ result.status # "skipped" =>
                   /\ Len(executions) <= ToolOf(result.id).retries + 1
                   /\ \A n \in 1..(Len(executions) - 1) : executions[n].exit_code # 0
                   /\ ToolOf(result.id).retries = 0 => Len(executions) = 1
                   /\ result.attempts = Len(executions)

\* what the loop does: a failing tool with retries = N is executed N + 2 times; the
\* run stops at the first exit code 0, and attempts is the number of executions
C29_RetriesPlusTwoExecutions ==
    ret.op = "main" =>
        \A k \in 1..Len(ret.value.results) :
            LET result == ret.value.results[k]
                executions == Executions(result.id)
            IN result.result_source = "computed" /\ result.status # "skipped" =>
                   /\ Len(executions) >= 1
                   /\ Len(executions) <= ToolOf(result.id).retries + 2
                   /\ \A n \in 1..(Len(executions) - 1) : executions[n].exit_code # 0
                   /\ result.exit_code = executions[Len(executions)].exit_code
                   /\ result.exit_code # 0 =>
                          Len(executions) = ToolOf(result.id).retries + 2
                   /\ result.attempts = Len(executions)

\* the entries summary.json held for the tool when the last invocation started
PriorEntries(tool_id) ==
    IF ret.value.before.summary = NoFile THEN {}
    ELSE {ret.value.before.summary.data.tools[k] :
             k \in EntriesOf(ret.value.before.summary.data, tool_id)}

\* the stored summary is of the commit and of the matrix the last invocation ran on
StoredForCheckout ==
    /\ ret.value.before.summary # NoFile
    /\ ret.value.before.summary.data.commit_sha = checkout.commit_sha
    /\ ret.value.before.summary.data.matrix_sha256 = sha256_bytes(checkout.matrix)

C30_WitnessFailedRunAgain ==
    /\ ret.op = "main"
    /\ ret.value.resume
    /\ StoredForCheckout
    /\ Len(ret.value.results) = 1
    /\ \E prior \in PriorEntries("turbo-build") :
           /\ prior.status = "fail"
           /\ prior.command = ret.value.results[1].command
    /\ EvidenceFiles("turbo-build") \subseteq ret.value.before.evidence
    /\ ret.value.results[1].result_source = "computed"
    /\ ret.value.results[1].status = "pass"
    /\ Len(spawned) >= 1

\* a resumed run after one evidence file was deleted: the passing result is not reused
C30_WitnessEvidenceMissing ==
    /\ ret.op = "main"
    /\ ret.value.resume
    /\ StoredForCheckout
    /\ Len(ret.value.results) = 1
    /\ \E prior \in PriorEntries("turbo-build") :
           /\ prior.status = "pass"
           /\ prior.command = ret.value.results[1].command
    /\ ~(EvidenceFiles("turbo-build") \subseteq ret.value.before.evidence)
    /\ ret.value.results[1].result_source = "computed"
    /\ Len(spawned) >= 1

\* a resumed run whose stored result is skipped for a missing token, now set: executed
C30_WitnessSkippedNotReused ==
    /\ ret.op = "main"
    /\ ret.value.resume
    /\ StoredForCheckout
    /\ Len(ret.value.results) = 1
    /\ \E prior \in PriorEntries("turbo-build") :
           prior.status = "skipped" /\ prior.skipped_reason = "missing env"
    /\ EvidenceFiles("turbo-build") \subseteq ret.value.before.evidence
    /\ ret.value.results[1].result_source = "computed"
    /\ Len(spawned) >= 1

====
